---- MODULE Spec2Model ----
(***************************************************************************)
(* State-machine model of the x402 facilitator: the PaymentVerifier (nonce *)
(* cache, scheme-dispatched checks) and the PaymentSettler (retry pipeline *)
(* around simulate / submit / await receipt), with the helpers they call;  *)
(* and of the SDK around it: the CircuitBreaker, the X402Client request    *)
(* pipeline and its streaming variant, the server middleware (Express and  *)
(* Hono adapters), the RateLimiter and the facilitator's HTTP routes that  *)
(* it guards, the PaymentEventBus, the wallet's nonce generation and       *)
(* withRetry.                                                              *)
(*                                                                         *)
(* Strings that the code builds with template literals are modelled by     *)
(* their fixed part ("Scheme mismatch: expected a, got b" is "Scheme       *)
(* mismatch").  Decimal-string amounts and timestamps are modelled by the  *)
(* integer BigInt() yields; a string BigInt() rejects is a header of kind  *)
(* "badvalue".                                                             *)
(***************************************************************************)
EXTENDS Integers, Sequences, FiniteSets, TLC

(***************************************************************************)
(* Bounds of the model.                                                    *)
(***************************************************************************)
MaxTicks == 1        \* clock advances per behaviour
MaxAmount == 2       \* amounts range over 0..MaxAmount
MaxRetries == 4      \* options.maxRetries ranges over 1..MaxRetries, or is omitted
StartMs == 1000000   \* Date.now() at construction
MaxThreshold == 2    \* failureThreshold and successThreshold range over 1..MaxThreshold, or are omitted
MaxClientTicks == 4  \* advances of the client's clock per behaviour
MaxPrice == 2        \* offers ask 1..MaxPrice
MaxAccepts == 3      \* accepts lists given to the option selection hold 1..MaxAccepts offers
MaxTokens == 2       \* maxTokens and refillRatePerSecond range over 1..MaxTokens, or are the default
MaxLimiterTicks == 3 \* advances of the rate limiter's clock per behaviour
MaxLimiterOps == 3   \* direct tryConsume and getAvailableTokens calls per behaviour
MaxRequests == 3     \* HTTP requests served per behaviour
MaxHistory == 1      \* options.maxHistorySize ranges over 0..MaxHistory, or is omitted
MaxEmits == 2        \* emit() calls per behaviour
MaxSubscribes == 3   \* on() and onAll() calls per behaviour
MaxVerifications == 2 \* verify() calls per behaviour
MaxSigns == 3        \* generateNonce() calls per behaviour, after the wallet's earlier ones
SoftCap == 1         \* the soft cap on the nonce cache that the documentation gives as 10,000

(***************************************************************************)
(* Program constants.                                                      *)
(***************************************************************************)
NonceTtlMs == 300000        \* recordNonce(..., ttlMs = 300_000)
X402Version == 1            \* paymentPayload.x402Version !== 1
DefaultMaxAttempts == 3     \* options?.maxRetries ?? 3
DefaultFailureThreshold == 5    \* options.failureThreshold ?? 5
DefaultResetTimeoutMs == 30000  \* options.resetTimeoutMs ?? 30000
DefaultSuccessThreshold == 2    \* options.successThreshold ?? 2
ClientFailureThreshold == 5     \* getCircuitBreaker: failureThreshold: 5
ClientMaxAttempts == 3          \* request: maxAttempts: 3
PaymentRequired == 402          \* STATUS_CODES.PAYMENT_REQUIRED
DefaultRateLimit == 50          \* options?.rateLimit ?? 50
MsPerSecond == 1000             \* (now - this.lastRefill) / 1000
TooManyRequests == 429          \* c.json({ error: 'Rate limit exceeded' }, 429)
DefaultMaxHistorySize == 1000   \* options?.maxHistorySize ?? 1000
MaxDrawAttempts == 100          \* while (this.usedNonces.has(nonce) && attempts < 100)
NonceGcThreshold == 10000       \* if (this.usedNonces.size > 10000)
NonceGcKeep == 5000             \* arr.slice(-5000)
DefaultBaseDelayMs == 1000      \* baseDelayMs = 1000
DefaultMaxDelayMs == 30000      \* maxDelayMs = 30000
BackoffMultiplier == 2          \* backoffMultiplier = 2
JitterDivisor == 10             \* jitter = 0.1

Null == "null"
Undefined == "undefined"

KnownNetworks ==
  {"base-mainnet", "base-sepolia", "ethereum-mainnet", "arbitrum-one", "optimism-mainnet"}

Net == "base-sepolia"
BadNet == "solana-devnet"
Payee == "0xPayee"
Holder == "0xHolder"
Nonces == {"0xn1", "0xn2"}
Amounts == 0..MaxAmount
StartSec == StartMs \div 1000
TickSteps == {1000, NonceTtlMs}
Stamps == {StartSec - 1, StartSec, StartSec + 1, StartSec + 900}

(***************************************************************************)
(* Inputs: payment headers (by what decodePaymentHeader yields for them)   *)
(* and payment requirements.                                               *)
(***************************************************************************)
Auth(to, value, after, before, nonce) ==
  [from |-> Holder, to |-> to, value |-> value, validAfter |-> after,
   validBefore |-> before, nonce |-> nonce]

GoodAuth == Auth(Payee, MaxAmount, StartSec - 60, StartSec + 900, "0xn1")

Header(kind, version, scheme, network, sig, auth) ==
  [kind |-> kind, x402Version |-> version, scheme |-> scheme, network |-> network,
   sig |-> sig, auth |-> auth]

GoodHeader == Header("object", X402Version, "exact", Net, "good", GoodAuth)

\* not base64/JSON; JSON null; a JSON scalar; an object without payload;
\* an object whose authorization.value is no integer literal
ShapeHeaders ==
  {[GoodHeader EXCEPT !.kind = k] : k \in {"garbage", "null", "scalar", "nopayload", "badvalue"}}

AmountHeaders ==
  {[GoodHeader EXCEPT !.scheme = s, !.auth.value = v, !.auth.nonce = n] :
     s \in {"exact", "upto", "stream"}, v \in Amounts, n \in Nonces}

FieldHeaders ==
  { [GoodHeader EXCEPT !.x402Version = 2],
    [GoodHeader EXCEPT !.network = BadNet],
    [GoodHeader EXCEPT !.auth.to = "0xOther"],
    [GoodHeader EXCEPT !.auth.to = "0xPAYEE"],
    [GoodHeader EXCEPT !.sig = "bad"],
    [GoodHeader EXCEPT !.sig = "malformed"] }

TimeHeaders ==
  {[GoodHeader EXCEPT !.auth.validAfter = a, !.auth.validBefore = b] :
     a \in Stamps, b \in Stamps}

Headers == ShapeHeaders \cup AmountHeaders \cup FieldHeaders \cup TimeHeaders

Requirement(scheme, network, amount) ==
  [scheme |-> scheme, network |-> network, maxAmountRequired |-> amount, payTo |-> Payee]

Requirements ==
  {Requirement(s, Net, m) : s \in {"exact", "upto"}, m \in Amounts}
    \cup {Requirement("exact", BadNet, MaxAmount), Requirement("stream", Net, MaxAmount)}

(***************************************************************************)
(* State.                                                                  *)
(***************************************************************************)
VARIABLES
  now,          \* Date.now(), in ms
  ticks,        \* clock advances so far
  nonceCache,   \* PaymentVerifier.nonceCache: key -> expiresAt
  accepted,     \* history: isValid=true returns per key since its entry was last created afresh
  vpc,          \* per verify() call: where it is suspended
  vin,          \* per verify() call: its arguments
  vres,         \* per verify() call: the VerificationResult it resolves to
  vhit,         \* history: the call's (network, nonce) was in the cache when it started
  vat,          \* history: Date.now() when the call ran its synchronous checks
  metrics,      \* PaymentVerifier.metrics: the four counters
  nonceCacheTtlMs, \* the constructor's options.nonceCacheTtlMs, or none
  vread         \* history: per verify() call, what its balanceOf read yielded, if it was made

VARIABLES
  spc,          \* the settle() call: where it is suspended
  sin,          \* the settle() call: its arguments
  attempt,      \* withRetry's attempt counter
  sres,         \* the SettlementResult settle() resolves to
  svia,         \* history: whether the result was returned by the pipeline or built by the catch clause
  txs,          \* history: the hashes writeContract returned during this call
  sims,         \* history: simulateContract calls during this call
  lastThrown,   \* history: the message of the last error the pipeline threw
  simFailed,    \* history: the message simulateContract failed with during this call
  events        \* the events this call emitted on the bus, in order

VARIABLES
  breaker,      \* a CircuitBreaker: its private fields
  clientNow,    \* Date.now() in the client's process, in ms
  clientTicks,  \* advances of that clock so far
  bpc,          \* per execute() call: idle, running (awaiting fn), done
  bres,         \* per execute() call: how it settled (ok, error, open)
  badm,         \* history: the breaker's state when the call was let through to fn
  cbRun,        \* history: failed execute() completions since the last successful one
  hoSuccesses,  \* history: successful completions since the breaker last entered half-open
  opened        \* history: the breaker has been open at least once

verifierVars == <<now, ticks, nonceCache, accepted, vpc, vin, vres, vhit, vat, metrics,
                  nonceCacheTtlMs, vread>>
settlerVars == <<spc, sin, attempt, sres, svia, txs, sims, lastThrown, simFailed, events>>
VARIABLES
  circuitBreakers,  \* X402Client.circuitBreakers: host -> CircuitBreaker
  paymentDecision,  \* X402Client.paymentDecision is set (a callback) or null
  cpc,              \* the request() call: where it is suspended
  cin,              \* the request() call: the host of its url and options.maxAmount
  cattempt,         \* withRetry's attempt counter
  offered,          \* the accepts list of the 402 response of this attempt
  requirements,     \* the option selected in this attempt
  cres,             \* what request() resolved to or rejected with
  trace,            \* history: the steps of this attempt, in the order they started
  signatures,       \* history: authorizations signed during this request() call
  paidRequests,     \* history: HTTP requests carrying X-PAYMENT sent during this call
  fetches,          \* history: HTTP requests sent during this call
  refusedAt,        \* history: the attempt in which the payment was refused by policy, or 0
  answered          \* history: the status of the response to this attempt's first fetch, or 0

VARIABLES
  gpc,          \* the middleware call: idle, facilitator (awaiting its answer), done
  gin,          \* the middleware call: adapter, route configuration and request
  gsent,        \* the requirements sent to the facilitator
  ganswer,      \* history: the facilitator's answer (positive, negative, throw)
  glog,         \* history: facilitator calls, hook calls, setHeader and next(), in order
  gres          \* the response

breakerVars == <<breaker, clientNow, clientTicks, bpc, bres, badm, cbRun, hoSuccesses, opened>>
clientVars == <<circuitBreakers, paymentDecision, cpc, cin, cattempt, offered, requirements,
                cres, trace, signatures, paidRequests, fetches, refusedAt, answered>>
gatewayVars == <<gpc, gin, gsent, ganswer, glog, gres>>
VARIABLES
  limiterNow,   \* Date.now() as the rate limiter reads it, in ms
  limiterTicks, \* advances of that clock so far
  limiter,      \* a RateLimiter: its private fields, tokens in thousandths of a token
  limiterOps,   \* direct calls of tryConsume and getAvailableTokens so far
  returned,     \* what the last tryConsume or getAvailableTokens call returned
  spent,        \* history: the tokens taken from the full bucket at one instant, and when
  rateLimitEnabled, \* createRoutes: options?.rateLimitEnabled !== false
  requests,     \* HTTP requests served so far
  response      \* the response to the last HTTP request

limiterVars == <<limiterNow, limiterTicks, limiter, limiterOps, returned, spent,
                 rateLimitEnabled, requests, response>>
VARIABLES
  listeners,       \* PaymentEventBus.listeners: event type -> Set of listeners, in insertion order
  globalListeners, \* PaymentEventBus.globalListeners, in insertion order
  eventHistory,    \* PaymentEventBus.eventHistory
  maxHistorySize,  \* PaymentEventBus.maxHistorySize
  ecall,           \* the emit() call: idle, await (a listener), done; the Set iterator's position
  handles,         \* the unsubscribe functions returned so far, as <<scope, listener>>
  emits,           \* emit() calls so far
  subscribes,      \* on() and onAll() calls so far
  emitted,         \* history: the events emitted since the history was last cleared, in order
  delivery,        \* history: starts and ends of listener calls of this emit(), in order
  atStart,         \* history: the subscriptions to this event when emit() was called
  added,           \* history: subscriptions made while this emit() was pending
  removed          \* history: subscriptions removed while this emit() was pending

busVars == <<listeners, globalListeners, eventHistory, maxHistorySize, ecall, handles, emits,
             subscribes, emitted, delivery, atStart, added, removed>>
VARIABLES
  usedNonces,   \* X402Wallet.usedNonces, in insertion order
  signs,        \* generateNonce() calls so far, the earlier ones apart
  generated     \* what the last generateNonce() call returned: the nonce and the draws it took

walletVars == <<usedNonces, signs, generated>>
VARIABLES
  rpc,          \* the withRetry() call: idle, fn (awaiting fn), sleep, done
  ropt,         \* the withRetry() call: its options as given
  rattempt,     \* withRetry's loop variable attempt
  rlog,         \* history: fn invocations, their outcomes, onRetry calls and sleeps, in order
  rres          \* how withRetry() settled: the value it resolved to or the error it rejected with

retryVars == <<rpc, ropt, rattempt, rlog, rres>>
vars == <<verifierVars, settlerVars, breakerVars, clientVars, gatewayVars, limiterVars, busVars, walletVars, retryVars>>

\* what the actions of one component leave alone
outsideVerifier == <<settlerVars, breakerVars, clientVars, gatewayVars, limiterVars, busVars, walletVars, retryVars>>
outsideSettler == <<verifierVars, breakerVars, clientVars, gatewayVars, limiterVars, busVars, walletVars, retryVars>>
outsideBreaker == <<verifierVars, settlerVars, clientVars, gatewayVars, limiterVars, busVars, walletVars, retryVars>>
outsideClient == <<verifierVars, settlerVars, breakerVars, gatewayVars, limiterVars, busVars, walletVars, retryVars>>
outsideGateway == <<verifierVars, settlerVars, breakerVars, clientVars, limiterVars, busVars, walletVars, retryVars>>
outsideLimiter == <<verifierVars, settlerVars, breakerVars, clientVars, gatewayVars, busVars, walletVars, retryVars>>
outsideBus == <<verifierVars, settlerVars, breakerVars, clientVars, gatewayVars, limiterVars, walletVars, retryVars>>
outsideWallet == <<verifierVars, settlerVars, breakerVars, clientVars, gatewayVars, limiterVars, busVars, retryVars>>
outsideRetry == <<verifierVars, settlerVars, breakerVars, clientVars, gatewayVars, limiterVars, busVars, walletVars>>

Calls == {1, 2}

(***************************************************************************)
(* Pure helpers of the verifier.                                           *)
(***************************************************************************)
ToLowerCase(a) ==
  IF a \in {"0xPayee", "0xPAYEE"} THEN "0xpayee" ELSE IF a = "0xOther" THEN "0xother" ELSE a

\* the comparison reversed
isAmountSufficientReversed(paymentAmount, requiredAmount) == paymentAmount <= requiredAmount

isAmountSufficient(paymentAmount, requiredAmount) == paymentAmount >= requiredAmount

\* the window taken as open at both ends
isTimestampValidStrict(validAfter, validBefore, nowMs) ==
  LET nowSec == nowMs \div 1000
  IN  nowSec > validAfter /\ nowSec < validBefore

isTimestampValid(validAfter, validBefore, nowMs) ==
  LET nowSec == nowMs \div 1000
  IN  nowSec >= validAfter /\ nowSec <= validBefore

getNetworkThrows(networkId) == networkId \notin KnownNetworks

NonceKey(networkId, nonce) == <<networkId, nonce>>

AllKeys == {NonceKey(n, x) : n \in {Net, BadNet}, x \in Nonces}

\* the lookup made under a key with its parts swapped, which recordNonce never writes
checkNonceSwappedKey(cache, nonce, networkId) == NonceKey(nonce, networkId) \notin DOMAIN cache

checkNonce(cache, nonce, networkId) == NonceKey(networkId, nonce) \notin DOMAIN cache

recordNonce(cache, nonce, networkId, nowMs) ==
  LET key == NonceKey(networkId, nonce)
  IN  [k \in DOMAIN cache \cup {key} |-> IF k = key THEN nowMs + NonceTtlMs ELSE cache[k]]

Expired(cache, nowMs) == {k \in DOMAIN cache : cache[k] <= nowMs}

VerificationResult(isValid, invalidReason) ==
  [isValid |-> isValid, invalidReason |-> invalidReason, rejected |-> FALSE]

NoResult == [isValid |-> FALSE, invalidReason |-> Undefined, rejected |-> FALSE]

\* verify's catch clause: the error becomes a failure result
VerifyCatch(message) == VerificationResult(FALSE, message)

Step(t, reason) == [t |-> t, reason |-> reason]

\* verify, from decoding to the scheme dispatch
VerifyHead(h, R) ==
  IF h.kind = "garbage" THEN Step("throw", "Unexpected token in JSON")
  ELSE IF h.kind = "null" THEN Step("throw", "Cannot read properties of null")
  ELSE IF h.kind = "scalar" \/ h.x402Version # X402Version
    THEN Step("fail", "Unsupported x402 version")
  ELSE IF h.scheme # R.scheme THEN Step("fail", "Scheme mismatch")
  ELSE IF h.network # R.network THEN Step("fail", "Network mismatch")
  ELSE IF h.scheme \notin {"exact", "upto"} THEN Step("fail", "Unsupported scheme")
  ELSE Step("dispatch", Null)

\* the synchronous checks with the amount compared ahead of the nonce lookup
ExactHeadAmountFirst(h, R, cache, nowMs) ==
  IF h.kind = "nopayload" THEN Step("throw", "Cannot destructure property of undefined")
  ELSE IF h.kind = "badvalue" THEN Step("throw", "Cannot convert to a BigInt")
  ELSE IF ~isAmountSufficient(h.auth.value, R.maxAmountRequired)
    THEN Step("return", "Insufficient amount")
  ELSE IF ~checkNonce(cache, h.auth.nonce, R.network)
    THEN Step("return", "Nonce already used (replay detected)")
  ELSE IF ToLowerCase(h.auth.to) # ToLowerCase(R.payTo) THEN Step("return", "Recipient mismatch")
  ELSE IF ~isTimestampValid(h.auth.validAfter, h.auth.validBefore, nowMs)
    THEN Step("return", "Authorization has expired or is not yet valid")
  ELSE IF getNetworkThrows(R.network) THEN Step("return", "Signature verification failed")
  ELSE Step("await", Null)

\* verifyExactScheme (verifyUptoScheme delegates to it), up to the await of verifyTypedData
ExactHead(h, R, cache, nowMs) ==
  IF h.kind = "nopayload" THEN Step("throw", "Cannot destructure property of undefined")
  ELSE IF ~checkNonce(cache, h.auth.nonce, R.network)
    THEN Step("return", "Nonce already used (replay detected)")
  ELSE IF ToLowerCase(h.auth.to) # ToLowerCase(R.payTo) THEN Step("return", "Recipient mismatch")
  ELSE IF h.kind = "badvalue" THEN Step("throw", "Cannot convert to a BigInt")
  ELSE IF ~isAmountSufficient(h.auth.value, R.maxAmountRequired)
    THEN Step("return", "Insufficient amount")
  ELSE IF ~isTimestampValid(h.auth.validAfter, h.auth.validBefore, nowMs)
    THEN Step("return", "Authorization has expired or is not yet valid")
  ELSE IF getNetworkThrows(R.network) THEN Step("return", "Signature verification failed")
  ELSE Step("await", Null)

\* the outcome of the await of verifyTypedData
SignatureStep(h) ==
  IF h.sig = "malformed" THEN Step("return", "Signature verification failed")
  ELSE IF h.sig # "good" THEN Step("return", "Invalid EIP-712 signature")
  ELSE Step("await", Null)

\* balanceOf read: it throws, or it yields a balance
BalanceReads == {[threw |-> TRUE, balance |-> 0]} \cup {[threw |-> FALSE, balance |-> b] : b \in Amounts}

\* a balance check that blocks when the read fails
BalanceStepHard(h, read) ==
  IF read.threw \/ read.balance < h.auth.value THEN Step("return", "Insufficient balance")
  ELSE Step("record", Null)

BalanceStep(h, read) ==
  IF ~read.threw /\ read.balance < h.auth.value THEN Step("return", "Insufficient balance")
  ELSE Step("record", Null)

\* emit without the try/catch around the listener
EmitPropagates(listenerThrows) == ~listenerThrows

\* EventBus.emit: a listener that throws is caught and logged
EmitCompletes(listenerThrows) == TRUE

(***************************************************************************)
(* The verifier.  verify() runs synchronously up to its first await; the   *)
(* awaits (verifyTypedData, readContract, emitVerified) are the points     *)
(* where other calls and the cleanup timer interleave.                     *)
(***************************************************************************)
NoInput == [h |-> GoodHeader, R |-> Requirement("exact", Net, 0)]

CarriesPair(h) == h.kind \in {"object", "badvalue"}

VerifierInit ==
  /\ now = StartMs
  /\ ticks = 0
  /\ nonceCache = <<>>
  /\ accepted = [k \in AllKeys |-> 0]
  /\ vpc = [c \in Calls |-> "idle"]
  /\ vin = [c \in Calls |-> NoInput]
  /\ vres = [c \in Calls |-> NoResult]
  /\ vhit = [c \in Calls |-> FALSE]
  /\ vat = [c \in Calls |-> 0]
  /\ metrics = [totalVerifications |-> 0, successfulVerifications |-> 0,
                failedVerifications |-> 0, replayAttemptsBlocked |-> 0]
  /\ nonceCacheTtlMs = <<>>
  /\ vread = [c \in Calls |-> <<>>]

\* new PaymentVerifier(rpcUrls, {nonceCacheTtlMs})
NewPaymentVerifier(ttlMs) ==
  /\ ticks = 0 /\ nonceCache = <<>> /\ metrics.totalVerifications = 0 /\ nonceCacheTtlMs = <<>>
  /\ nonceCacheTtlMs' = <<ttlMs>>
  /\ UNCHANGED <<now, ticks, nonceCache, accepted, vpc, vin, vres, vhit, vat, metrics, vread>>
  /\ UNCHANGED outsideVerifier

\* updateMetrics(result)
updateMetrics(m, isValid) ==
  IF isValid THEN [m EXCEPT !.successfulVerifications = @ + 1]
  ELSE [m EXCEPT !.failedVerifications = @ + 1]

\* the clock advances
Tick(d) ==
  /\ ticks < MaxTicks
  /\ now' = now + d
  /\ ticks' = ticks + 1
  /\ UNCHANGED <<nonceCache, accepted, vpc, vin, vres, vhit, vat, metrics, nonceCacheTtlMs, vread>>
  /\ UNCHANGED outsideVerifier

\* the setInterval callback
cleanupNonceCache ==
  /\ nonceCache' = [k \in DOMAIN nonceCache \ Expired(nonceCache, now) |-> nonceCache[k]]
  /\ accepted' = [k \in AllKeys |-> IF k \in Expired(nonceCache, now) THEN 0 ELSE accepted[k]]
  /\ UNCHANGED <<now, ticks, vpc, vin, vres, vhit, vat, metrics, nonceCacheTtlMs, vread>>
  /\ UNCHANGED outsideVerifier

\* verify() resolves to res
VerifyResolve(c, res) ==
  /\ vpc' = [vpc EXCEPT ![c] = "done"]
  /\ vres' = [vres EXCEPT ![c] = res]

\* verify returns this.fail(...) ahead of the switch, past updateMetrics
ReturnedEarly(head) ==
  head.t = "fail" /\ head.reason \in {"Unsupported x402 version", "Scheme mismatch", "Network mismatch"}

\* checkNonce finds the key in the cache: this.metrics.replayAttemptsBlocked++
blocksReplay(h, R, cache) ==
  h.kind # "nopayload" /\ ~checkNonce(cache, h.auth.nonce, R.network)

\* verify(paymentHeader, paymentRequirements) is called and runs to its first await
VerifyStart(c, h, R) ==
  /\ vpc[c] = "idle"
  /\ metrics.totalVerifications < MaxVerifications
  /\ vin' = [vin EXCEPT ![c] = [h |-> h, R |-> R]]
  /\ vhit' = [vhit EXCEPT ![c] =
                CarriesPair(h) /\ NonceKey(h.network, h.auth.nonce) \in DOMAIN nonceCache]
  /\ vat' = [vat EXCEPT ![c] = now]
  /\ LET head == VerifyHead(h, R)
         exact == ExactHead(h, R, nonceCache, now)
         called == [metrics EXCEPT !.totalVerifications = @ + 1]
         started == IF head.t = "dispatch" /\ blocksReplay(h, R, nonceCache)
                      THEN [called EXCEPT !.replayAttemptsBlocked = @ + 1]
                      ELSE called
     IN  IF head.t = "throw"
           THEN /\ VerifyResolve(c, VerifyCatch(head.reason))
                /\ metrics' = updateMetrics(started, FALSE)
         ELSE IF head.t = "fail"
           THEN /\ VerifyResolve(c, VerificationResult(FALSE, head.reason))
                /\ metrics' = IF ReturnedEarly(head) THEN started
                               ELSE updateMetrics(started, FALSE)
         ELSE IF exact.t = "throw"
           THEN /\ VerifyResolve(c, VerifyCatch(exact.reason))
                /\ metrics' = updateMetrics(started, FALSE)
         ELSE IF exact.t = "return"
           THEN /\ VerifyResolve(c, VerificationResult(FALSE, exact.reason))
                /\ metrics' = updateMetrics(started, FALSE)
         ELSE /\ vpc' = [vpc EXCEPT ![c] = "sig"]
              /\ metrics' = started
              /\ UNCHANGED vres
  /\ UNCHANGED <<now, ticks, nonceCache, accepted, nonceCacheTtlMs, vread>>
  /\ UNCHANGED outsideVerifier

\* verifyTypedData settles
VerifySigned(c) ==
  /\ vpc[c] = "sig"
  /\ LET sig == SignatureStep(vin[c].h)
     IN  IF sig.t = "return"
           THEN /\ VerifyResolve(c, VerificationResult(FALSE, sig.reason))
                /\ metrics' = updateMetrics(metrics, FALSE)
         ELSE /\ vpc' = [vpc EXCEPT ![c] = "bal"]
              /\ UNCHANGED <<vres, metrics>>
  /\ UNCHANGED <<now, ticks, nonceCache, accepted, vin, vhit, vat, nonceCacheTtlMs, vread>>
  /\ UNCHANGED outsideVerifier

\* readContract(balanceOf) settles; on success the nonce is recorded and emitVerified awaited
VerifyBalance(c, read) ==
  /\ vpc[c] = "bal"
  /\ LET h == vin[c].h
         R == vin[c].R
         bal == BalanceStep(h, read)
         key == NonceKey(R.network, h.auth.nonce)
     IN  IF bal.t = "return"
           THEN /\ VerifyResolve(c, VerificationResult(FALSE, bal.reason))
                /\ metrics' = updateMetrics(metrics, FALSE)
                /\ UNCHANGED <<nonceCache, accepted>>
           ELSE /\ nonceCache' = recordNonce(nonceCache, h.auth.nonce, R.network, now)
                /\ accepted' = [accepted EXCEPT ![key] = @ + 1]
                /\ vres' = [vres EXCEPT ![c] = VerificationResult(TRUE, Null)]
                /\ metrics' = updateMetrics(metrics, TRUE)
                /\ vpc' = [vpc EXCEPT ![c] = "emit"]
  /\ vread' = [vread EXCEPT ![c] = <<read>>]
  /\ UNCHANGED <<now, ticks, vin, vhit, vat, nonceCacheTtlMs>>
  /\ UNCHANGED outsideVerifier

\* emitVerified settles; an error escaping it would land in verify's catch clause
VerifyEmitted(c, listenerThrows) ==
  /\ vpc[c] = "emit"
  /\ VerifyResolve(c, IF EmitCompletes(listenerThrows) THEN vres[c]
                      ELSE VerifyCatch("listener failed"))
  /\ metrics' = IF EmitCompletes(listenerThrows) THEN metrics ELSE updateMetrics(metrics, FALSE)
  /\ UNCHANGED <<now, ticks, nonceCache, accepted, vin, vhit, vat, nonceCacheTtlMs, vread>>
  /\ UNCHANGED outsideVerifier

\* the caller takes the result
VerifyReturn(c) ==
  /\ vpc[c] = "done"
  /\ vpc' = [vpc EXCEPT ![c] = "idle"]
  /\ vin' = [vin EXCEPT ![c] = NoInput]
  /\ vres' = [vres EXCEPT ![c] = NoResult]
  /\ vhit' = [vhit EXCEPT ![c] = FALSE]
  /\ vat' = [vat EXCEPT ![c] = 0]
  /\ vread' = [vread EXCEPT ![c] = <<>>]
  /\ UNCHANGED <<now, ticks, nonceCache, accepted, metrics, nonceCacheTtlMs>>
  /\ UNCHANGED outsideVerifier

VerifierEnv ==
  \/ \E d \in TickSteps : Tick(d)
  \/ cleanupNonceCache

VerifyCall(c) ==
  \/ VerifySigned(c)
  \/ \E read \in BalanceReads : VerifyBalance(c, read)
  \/ \E listenerThrows \in BOOLEAN : VerifyEmitted(c, listenerThrows)
  \/ VerifyReturn(c)

\* calls that do not overlap: one call at a time
VerifierSeqNext ==
  \/ vpc[1] = "idle" /\ \E h \in Headers, R \in Requirements : VerifyStart(1, h, R)
  \/ VerifyCall(1)
  \/ VerifierEnv

\* overlapping calls for payments that pass the synchronous checks
OverlapHeaders == {h \in AmountHeaders : h.scheme = "exact" /\ h.auth.value = MaxAmount}
                    \cup {[GoodHeader EXCEPT !.sig = "bad"]}

\* a verifier constructed with a nonce cache TTL of its own
VerifierCfgNext ==
  \/ \E ttlMs \in {1000, NonceTtlMs} : NewPaymentVerifier(ttlMs)
  \/ vpc[1] = "idle" /\ \E h \in OverlapHeaders : VerifyStart(1, h, Requirement("exact", Net, MaxAmount))
  \/ VerifyCall(1)
  \/ VerifierEnv

VerifierConcNext ==
  \/ \E c \in Calls : vpc[c] = "idle" /\ \E h \in OverlapHeaders :
       VerifyStart(c, h, Requirement("exact", Net, MaxAmount))
  \/ \E c \in Calls : VerifyCall(c)
  \/ VerifierEnv

(***************************************************************************)
(* The settler.  Error messages are sequences of words, so that            *)
(* String.includes and concatenation are computed; the empty sequence is   *)
(* a null error.  An optional value is a sequence of length 0 or 1.        *)
(* options.maxRetries, when given, is at least 1.                          *)
(***************************************************************************)
None == <<>>
Some(x) == <<x>>

TransientMsg == <<"request", "timed", "out">>
NonceMsg == <<"nonce", "too", "low">>
FundsMsg == <<"insufficient", "funds", "for", "gas">>
RevertMsg == <<"execution", "reverted">>
BigIntMsg == <<"Cannot", "convert", "to", "a", "BigInt">>
TypeErrorMsg == <<"Cannot", "read", "properties">>
SchemeMsg == <<"Unsupported", "scheme">>
NetworkMsg == <<"Unknown", "network">>
JsonMsg == <<"Unexpected", "token", "in", "JSON">>
ListenerMsg == <<"listener", "failed">>
ExceedsMsg == <<"Charge", "amount", "exceeds", "authorized", "max">>
RevertedMsg == <<"Transaction", "reverted">>

Includes(message, word) == \E i \in DOMAIN message : message[i] = word

SettleHeaders == ShapeHeaders \cup {h \in AmountHeaders : h.auth.nonce = "0xn1"}

SettleRequirements == {R \in Requirements : R.scheme = "exact"}

ActualAmounts ==
  {[given |-> FALSE, numeric |-> TRUE, amount |-> 0], [given |-> TRUE, numeric |-> FALSE, amount |-> 0]}
    \cup {[given |-> TRUE, numeric |-> TRUE, amount |-> a] : a \in 0..(MaxAmount + 1)}

RetryChoices ==
  {[given |-> FALSE, n |-> 0]} \cup {[given |-> TRUE, n |-> k] : k \in 1..MaxRetries}

SettleOptions == {[actualAmount |-> a, maxRetries |-> r] : a \in ActualAmounts, r \in RetryChoices}

NoSettleInput ==
  [h |-> GoodHeader, R |-> Requirement("exact", Net, 0),
   options |-> [actualAmount |-> [given |-> FALSE, numeric |-> TRUE, amount |-> 0],
                maxRetries |-> [given |-> FALSE, n |-> 0]]]

SettlementResult(success, txHash, error, actualAmount) ==
  [success |-> success, txHash |-> txHash, error |-> error, actualAmount |-> actualAmount,
   rejected |-> FALSE]

NoSettlement == SettlementResult(FALSE, None, None, None)

\* maxAttempts: options?.maxRetries ?? 3
MaxAttempts(options) ==
  IF options.maxRetries.given THEN options.maxRetries.n ELSE DefaultMaxAttempts

\* the predicate with the "insufficient" test left out
isRetryableNonceOnly(message) == ~Includes(message, "nonce")

isRetryable(message) == ~Includes(message, "nonce") /\ ~Includes(message, "insufficient")

\* the caller's actualAmount ignored
ChargeAmountDefaultOnly(R, options) == R.maxAmountRequired

\* actualAmount ?? requirements.maxAmountRequired
ChargeAmount(R, options) ==
  IF options.actualAmount.given THEN options.actualAmount.amount ELSE R.maxAmountRequired

SStep(t, message) == [t |-> t, message |-> message]

\* simulateContract awaited without the try/catch
SimulateThrows(message) == SStep("throw", message)

\* settleExact's catch around simulateContract: a failure result, not an error
SimulateCatch(message) == SStep("return", <<"Simulation", "failed:">> \o message)

\* settleExact, up to the await of simulateContract
SettleExactHead(h, R) ==
  IF h.kind = "nopayload" THEN SStep("throw", TypeErrorMsg)
  ELSE IF getNetworkThrows(R.network) THEN SStep("throw", NetworkMsg)
  ELSE SStep("await", None)

\* settleUpto, up to the await of simulateContract
SettleUptoHead(h, R, options) ==
  IF options.actualAmount.given /\ ~options.actualAmount.numeric THEN SStep("throw", BigIntMsg)
  ELSE IF h.kind = "nopayload" THEN SStep("throw", TypeErrorMsg)
  ELSE IF h.kind = "badvalue" THEN SStep("throw", BigIntMsg)
  ELSE IF ChargeAmount(R, options) > h.auth.value THEN SStep("refuse", ExceedsMsg)
  ELSE SettleExactHead(h, R)

\* the function withRetry runs, up to its first await
PipelineHead(h, R, options) ==
  IF h.kind = "null" THEN SStep("throw", TypeErrorMsg)
  ELSE IF h.kind = "scalar" THEN SStep("throw", SchemeMsg)
  ELSE IF h.scheme = "exact" THEN SettleExactHead(h, R)
  ELSE IF h.scheme = "upto" THEN SettleUptoHead(h, R, options)
  ELSE SStep("throw", SchemeMsg)

\* settleUpto overwrites actualAmount on what settleExact returned
WithCharge(input, result) ==
  IF input.h.scheme = "upto"
    THEN [result EXCEPT !.actualAmount = Some(ChargeAmount(input.R, input.options))]
    ELSE result

SimOutcomes == {[ok |-> TRUE, message |-> None]}
                 \cup {[ok |-> FALSE, message |-> m] : m \in {RevertMsg, TransientMsg}}

WriteOutcomes == {[ok |-> TRUE, message |-> None]}
                   \cup {[ok |-> FALSE, message |-> m] : m \in {TransientMsg, NonceMsg, FundsMsg}}

ReceiptOutcomes ==
  { [threw |-> FALSE, status |-> "success", message |-> None],
    [threw |-> FALSE, status |-> "reverted", message |-> None],
    [threw |-> TRUE, status |-> "none", message |-> TransientMsg] }

\* settleExact's return value once the receipt is in
ReceiptResult(h, txHash, status) ==
  SettlementResult(status = "success", Some(txHash),
                   IF status = "success" THEN None ELSE RevertedMsg, Some(h.auth.value))

Event(type, txHash, error) == [type |-> type, txHash |-> txHash, error |-> error]

SettlerInit ==
  /\ spc = "idle"
  /\ sin = NoSettleInput
  /\ attempt = 0
  /\ sres = NoSettlement
  /\ svia = "none"
  /\ txs = <<>>
  /\ sims = 0
  /\ lastThrown = None
  /\ simFailed = None
  /\ events = <<>>

\* settle's catch clause: a failure result and payment:failed
SettleCaught(message) ==
  /\ sres' = SettlementResult(FALSE, None, message, None)
  /\ svia' = "catch"
  /\ events' = Append(events, Event("payment:failed", None, message))
  /\ spc' = "emit"

\* withRetry's catch clause at attempt n of max
SettleThrown(n, max, message) ==
  /\ lastThrown' = message
  /\ attempt' = n
  /\ IF n = max \/ ~isRetryable(message)
       THEN SettleCaught(message)
       ELSE /\ spc' = "backoff"
            /\ UNCHANGED <<sres, svia, events>>

\* the pipeline returned result: settle emits payment:settled on success and returns it
SettleReturned(n, result) ==
  /\ attempt' = n
  /\ sres' = result
  /\ svia' = "return"
  /\ UNCHANGED lastThrown
  /\ IF result.success /\ result.txHash # None
       THEN /\ events' = Append(events, Event("payment:settled", result.txHash, None))
            /\ spc' = "emit"
       ELSE /\ spc' = "done"
            /\ UNCHANGED events

\* what settle does with the pipeline's synchronous part at attempt n
SettleApply(n, input, step) ==
  IF step.t = "throw" THEN SettleThrown(n, MaxAttempts(input.options), step.message)
  ELSE IF step.t = "refuse"
    THEN SettleReturned(n, SettlementResult(FALSE, None, step.message, None))
  ELSE /\ spc' = "sim"
       /\ attempt' = n
       /\ UNCHANGED <<sres, svia, lastThrown, events>>

\* settle(paymentHeader, paymentRequirements, options) is called and runs to its first await
SettleStart(h, R, options) ==
  /\ spc = "idle"
  /\ sin' = [h |-> h, R |-> R, options |-> options]
  /\ IF h.kind = "garbage"
       THEN /\ SettleCaught(JsonMsg)
            /\ UNCHANGED <<attempt, lastThrown>>
       ELSE SettleApply(1, [h |-> h, R |-> R, options |-> options], PipelineHead(h, R, options))
  /\ UNCHANGED <<txs, sims, simFailed>>
  /\ UNCHANGED outsideSettler

\* simulateContract settles (BigInt of a malformed value throws while its arguments are built)
SettleSimulated(outcome) ==
  /\ spc = "sim"
  /\ sin.h.kind = "badvalue" => ~outcome.ok /\ outcome.message = BigIntMsg
  /\ sims' = sims + 1
  /\ IF outcome.ok
       THEN /\ spc' = "write"
            /\ UNCHANGED <<attempt, sres, svia, lastThrown, simFailed, events>>
       ELSE /\ simFailed' = outcome.message
            /\ IF SimulateCatch(outcome.message).t = "return"
                 THEN SettleReturned(attempt, WithCharge(sin,
                        SettlementResult(FALSE, None, SimulateCatch(outcome.message).message, None)))
                 ELSE SettleThrown(attempt, MaxAttempts(sin.options),
                                   SimulateCatch(outcome.message).message)
  /\ UNCHANGED <<sin, txs>>
  /\ UNCHANGED outsideSettler

\* writeContract settles: a transaction hash, or an error
SettleWritten(outcome) ==
  /\ spc = "write"
  /\ IF outcome.ok
       THEN /\ txs' = Append(txs, Len(txs) + 1)
            /\ spc' = "receipt"
            /\ UNCHANGED <<attempt, sres, svia, lastThrown, events>>
       ELSE /\ SettleThrown(attempt, MaxAttempts(sin.options), outcome.message)
            /\ UNCHANGED txs
  /\ UNCHANGED <<sin, sims, simFailed>>
  /\ UNCHANGED outsideSettler

\* waitForTransactionReceipt settles
SettleReceipt(outcome) ==
  /\ spc = "receipt"
  /\ IF outcome.threw
       THEN SettleThrown(attempt, MaxAttempts(sin.options), outcome.message)
       ELSE SettleReturned(attempt, WithCharge(sin,
              ReceiptResult(sin.h, txs[Len(txs)], outcome.status)))
  /\ UNCHANGED <<sin, txs, sims, simFailed>>
  /\ UNCHANGED outsideSettler

\* withRetry's sleep is over: the next attempt runs to its first await
SettleBackoffDone ==
  /\ spc = "backoff"
  /\ SettleApply(attempt + 1, sin, PipelineHead(sin.h, sin.R, sin.options))
  /\ UNCHANGED <<sin, txs, sims, simFailed>>
  /\ UNCHANGED outsideSettler

\* emitSettled / emitFailed settles; an error escaping emitSettled lands in the catch
\* clause, one escaping emitFailed rejects settle's promise
SettleEmitted(listenerThrows) ==
  /\ spc = "emit"
  /\ IF EmitCompletes(listenerThrows)
       THEN /\ spc' = "done"
            /\ UNCHANGED <<sres, svia, events>>
       ELSE IF svia = "return"
         THEN SettleCaught(ListenerMsg)
         ELSE /\ sres' = [sres EXCEPT !.rejected = TRUE]
              /\ spc' = "done"
              /\ UNCHANGED <<svia, events>>
  /\ UNCHANGED <<sin, attempt, txs, sims, lastThrown, simFailed>>
  /\ UNCHANGED outsideSettler

\* the caller takes the result
SettleReturn ==
  /\ spc = "done"
  /\ spc' = "idle"
  /\ sin' = NoSettleInput
  /\ attempt' = 0
  /\ sres' = NoSettlement
  /\ svia' = "none"
  /\ txs' = <<>>
  /\ sims' = 0
  /\ lastThrown' = None
  /\ simFailed' = None
  /\ events' = <<>>
  /\ UNCHANGED outsideSettler

SettlerNext ==
  \/ spc = "idle" /\ \E h \in SettleHeaders, R \in SettleRequirements, options \in SettleOptions :
       SettleStart(h, R, options)
  \/ \E outcome \in SimOutcomes : SettleSimulated(outcome)
  \/ \E outcome \in WriteOutcomes : SettleWritten(outcome)
  \/ \E outcome \in ReceiptOutcomes : SettleReceipt(outcome)
  \/ SettleBackoffDone
  \/ \E listenerThrows \in BOOLEAN : SettleEmitted(listenerThrows)
  \/ SettleReturn

(***************************************************************************)
(* CircuitBreaker (core/utils/retry.ts).  fn is any promise-returning      *)
(* function: it is invoked when execute() lets the call through and it     *)
(* settles, resolved or rejected, in a later step.  reset() is not called. *)
(***************************************************************************)
BreakerOptions ==
  [failureThreshold : {None} \cup {Some(n) : n \in 1..MaxThreshold},
   successThreshold : {None} \cup {Some(n) : n \in 1..MaxThreshold}]

NoOptions == [failureThreshold |-> None, successThreshold |-> None]

\* field initialisers and constructor
CircuitBreaker(options) ==
  [state |-> "closed", failureCount |-> 0, successCount |-> 0, lastFailureTime |-> 0,
   failureThreshold |-> IF options.failureThreshold = None THEN DefaultFailureThreshold
                        ELSE options.failureThreshold[1],
   resetTimeoutMs |-> DefaultResetTimeoutMs,
   successThreshold |-> IF options.successThreshold = None THEN DefaultSuccessThreshold
                        ELSE options.successThreshold[1]]

\* transition that leaves the counters as they are
transitionKeepsCounts(cb, newState) == [cb EXCEPT !.state = newState]

transition(cb, newState) ==
  IF newState = "closed"
    THEN [cb EXCEPT !.state = newState, !.failureCount = 0, !.successCount = 0]
  ELSE IF newState = "half-open"
    THEN [cb EXCEPT !.state = newState, !.successCount = 0]
  ELSE [cb EXCEPT !.state = newState]

onSuccess(cb) ==
  LET counted == [cb EXCEPT !.successCount = @ + 1]
      after == IF cb.state # "half-open" THEN cb
               ELSE IF counted.successCount >= counted.successThreshold
                 THEN transition(counted, "closed")
               ELSE counted
  IN  [after EXCEPT !.failureCount = 0]

\* onFailure opening one failure late
onFailureLate(cb, nowMs) ==
  LET counted == [cb EXCEPT !.failureCount = @ + 1, !.lastFailureTime = nowMs]
  IN  IF counted.state = "half-open" THEN transition(counted, "open")
      ELSE IF counted.failureCount > counted.failureThreshold THEN transition(counted, "open")
      ELSE counted

onFailure(cb, nowMs) ==
  LET counted == [cb EXCEPT !.failureCount = @ + 1, !.lastFailureTime = nowMs]
  IN  IF counted.state = "half-open" THEN transition(counted, "open")
      ELSE IF counted.failureCount >= counted.failureThreshold THEN transition(counted, "open")
      ELSE counted

\* execute() letting every call through
ExecuteHeadAlways(cb, nowMs) == [admit |-> TRUE, cb |-> cb]

\* execute() up to the call of fn: whether fn is called, and the breaker afterwards
ExecuteHead(cb, nowMs) ==
  IF cb.state = "open"
    THEN IF nowMs - cb.lastFailureTime >= cb.resetTimeoutMs
           THEN [admit |-> TRUE, cb |-> transition(cb, "half-open")]
           ELSE [admit |-> FALSE, cb |-> cb]
    ELSE [admit |-> TRUE, cb |-> cb]

BreakerInit ==
  /\ breaker = CircuitBreaker(NoOptions)
  /\ clientNow = StartMs
  /\ clientTicks = 0
  /\ bpc = [c \in Calls |-> "idle"]
  /\ bres = [c \in Calls |-> "none"]
  /\ badm = [c \in Calls |-> "none"]
  /\ cbRun = 0
  /\ hoSuccesses = 0
  /\ opened = FALSE

\* new CircuitBreaker(options), before any call
NewCircuitBreaker(options) ==
  /\ breaker = CircuitBreaker(NoOptions)
  /\ clientTicks = 0
  /\ \A c \in Calls : bpc[c] = "idle"
  /\ breaker' = CircuitBreaker(options)
  /\ UNCHANGED <<clientNow, clientTicks, bpc, bres, badm, cbRun, hoSuccesses, opened>>
  /\ UNCHANGED outsideBreaker

ClientTick(d) ==
  /\ clientTicks < MaxClientTicks
  /\ clientNow' = clientNow + d
  /\ clientTicks' = clientTicks + 1
  /\ UNCHANGED <<breaker, bpc, bres, badm, cbRun, hoSuccesses, opened>>
  /\ UNCHANGED outsideBreaker

\* execute(fn), up to await fn()
Execute(c) ==
  LET head == ExecuteHead(breaker, clientNow) IN
  /\ bpc[c] # "running"
  /\ breaker' = head.cb
  /\ IF head.admit
       THEN /\ bpc' = [bpc EXCEPT ![c] = "running"]
            /\ bres' = [bres EXCEPT ![c] = "none"]
            /\ badm' = [badm EXCEPT ![c] = head.cb.state]
            /\ hoSuccesses' = IF breaker.state = "open" THEN 0 ELSE hoSuccesses
       ELSE /\ bpc' = [bpc EXCEPT ![c] = "done"]
            /\ bres' = [bres EXCEPT ![c] = "open"]
            /\ badm' = [badm EXCEPT ![c] = "none"]
            /\ UNCHANGED hoSuccesses
  /\ UNCHANGED <<clientNow, clientTicks, cbRun, opened>>
  /\ UNCHANGED outsideBreaker

\* fn() settles: onSuccess() and return, or onFailure() and rethrow
ExecuteSettled(c, ok) ==
  /\ bpc[c] = "running"
  /\ breaker' = IF ok THEN onSuccess(breaker) ELSE onFailure(breaker, clientNow)
  /\ bpc' = [bpc EXCEPT ![c] = "done"]
  /\ bres' = [bres EXCEPT ![c] = IF ok THEN "ok" ELSE "error"]
  /\ cbRun' = IF ok THEN 0 ELSE cbRun + 1
  /\ hoSuccesses' = IF ok /\ breaker.state = "half-open" THEN hoSuccesses + 1 ELSE hoSuccesses
  /\ opened' = (opened \/ breaker'.state = "open")
  /\ UNCHANGED <<clientNow, clientTicks, badm>>
  /\ UNCHANGED outsideBreaker

BreakerNext ==
  \/ \E options \in BreakerOptions : NewCircuitBreaker(options)
  \/ \E d \in {1, breaker.resetTimeoutMs - 1} : ClientTick(d)
  \/ \E c \in Calls : Execute(c)
  \/ \E c \in Calls, ok \in BOOLEAN : ExecuteSettled(c, ok)

(***************************************************************************)
(* X402Client (sdk-ts/client/x402-client.ts): request() runs the payment   *)
(* pipeline under withRetry, inside the host's circuit breaker.  One       *)
(* request() is in flight at a time.  The server, the decision callback    *)
(* and the event listeners are the environment.                            *)
(***************************************************************************)
Hosts == {"a.example", "b.example"}
Host == "a.example"   \* the host of the url the request pipeline is exercised with

L2Networks == {"base-mainnet", "base-sepolia", "arbitrum-one", "optimism-mainnet"}

Offer(amount, network) == [maxAmountRequired |-> amount, network |-> network]

Offers == {Offer(a, n) : a \in 1..MaxPrice, n \in {Net, "ethereum-mainnet", "arbitrum-one"}}

AcceptLists == UNION {[1..n -> Offers] : n \in 1..MaxAccepts}

\* the accepts lists the server of the request pipeline answers with
ServedLists ==
  {<<>>, <<Offer(1, Net)>>, <<Offer(MaxPrice, Net), Offer(1, "ethereum-mainnet")>>,
   <<Offer(MaxPrice, "ethereum-mainnet"), Offer(MaxPrice, Net)>>, <<Offer(1, BadNet)>>}

\* options.maxAmount: omitted, a bigint or a decimal string
MaxAmountChoices ==
  {[given |-> FALSE, type |-> "bigint", amount |-> 0]}
    \cup {[given |-> TRUE, type |-> t, amount |-> a] :
            t \in {"bigint", "string"}, a \in 0..(MaxPrice - 1)}

\* if (options.maxAmount): 0n is falsy, "0" is not
Truthy(maxAmount) == maxAmount.given /\ ~(maxAmount.type = "bigint" /\ maxAmount.amount = 0)

FetchMsg == <<"fetch", "failed">>
NoOptionsMsg == <<"Server", "returned", "402", "but", "no", "payment", "options">>
DeclinedMsg == <<"Payment", "declined", "by", "decision", "callback">>
ExceedsMaxMsg == <<"Price", "exceeds", "max", "willing", "to", "pay">>
OpenMsg == <<"Circuit", "breaker", "is", "OPEN.">>

\* the comparator of selectBestPaymentOption's sort
CompareOffers(a, b) ==
  IF a.maxAmountRequired # b.maxAmountRequired
    THEN (IF a.maxAmountRequired < b.maxAmountRequired THEN -1 ELSE 1)
  ELSE IF a.network \in L2Networks /\ b.network \notin L2Networks THEN -1
  ELSE IF a.network \notin L2Networks /\ b.network \in L2Networks THEN 1
  ELSE 0

\* Array.prototype.sort is stable: an element goes behind those that compare equal to it
RECURSIVE InsertSorted(_, _)
InsertSorted(sorted, x) ==
  IF sorted = <<>> THEN <<x>>
  ELSE IF CompareOffers(Head(sorted), x) <= 0
    THEN <<Head(sorted)>> \o InsertSorted(Tail(sorted), x)
  ELSE <<x>> \o sorted

RECURSIVE SortOffers(_)
SortOffers(list) ==
  IF list = <<>> THEN <<>>
  ELSE InsertSorted(SortOffers(SubSeq(list, 1, Len(list) - 1)), list[Len(list)])

\* selection that takes the first option offered
selectFirstOption(accepts) == accepts[1]

selectBestPaymentOption(accepts) ==
  IF Len(accepts) = 1 THEN accepts[1] ELSE SortOffers(accepts)[1]

\* !msg.includes('declined') && !msg.includes('exceeds max')
clientIsRetryable(message) ==
  /\ ~Includes(message, "declined")
  /\ ~\E i \in 1..(Len(message) - 1) : message[i] = "exceeds" /\ message[i + 1] = "max"

getCircuitBreaker(breakers, host) ==
  IF host \in DOMAIN breakers THEN breakers
  ELSE [h \in DOMAIN breakers \cup {host} |->
          IF h = host
            THEN CircuitBreaker([failureThreshold |-> Some(ClientFailureThreshold),
                                 successThreshold |-> None])
            ELSE breakers[h]]

\* X402Response, or the error request() rejects with
ClientResult(kind, status, paid, amountPaid, txHash, error) ==
  [kind |-> kind, status |-> status, paid |-> paid, amountPaid |-> amountPaid,
   txHash |-> txHash, error |-> error]

NoClientResult == ClientResult("none", 0, FALSE, None, None, [name |-> "none", message |-> None])

Rejection(name, message) ==
  ClientResult("rejected", 0, FALSE, None, None, [name |-> name, message |-> message])

FetchOutcomes ==
  {[kind |-> "throw", status |-> 0, json |-> FALSE, accepts |-> <<>>]}
    \cup {[kind |-> "response", status |-> st, json |-> j, accepts |-> <<>>] :
            st \in {200, 500}, j \in BOOLEAN}
    \cup {[kind |-> "response", status |-> PaymentRequired, json |-> TRUE, accepts |-> a] :
            a \in ServedLists}
    \cup {[kind |-> "response", status |-> PaymentRequired, json |-> FALSE, accepts |-> <<>>]}

\* the answer to the request carrying X-PAYMENT, with its X-PAYMENT-RESPONSE header
PaidOutcomes ==
  {[kind |-> "throw", status |-> 0, json |-> FALSE, receipt |-> "absent"]}
    \cup {[kind |-> "response", status |-> st, json |-> j, receipt |-> r] :
            st \in {200, 400}, j \in BOOLEAN,
            r \in {"absent", "garbage", "settled", "metered"}}

ClientInit ==
  /\ circuitBreakers = <<>>
  /\ paymentDecision = FALSE
  /\ cpc = "idle"
  /\ cin = [host |-> "none", maxAmount |-> [given |-> FALSE, type |-> "bigint", amount |-> 0]]
  /\ cattempt = 0
  /\ offered = <<>>
  /\ requirements = None
  /\ cres = NoClientResult
  /\ trace = <<>>
  /\ signatures = 0
  /\ paidRequests = 0
  /\ fetches = 0
  /\ refusedAt = 0
  /\ answered = 0

setPaymentDecision ==
  /\ cpc \in {"idle", "done"}
  /\ ~paymentDecision
  /\ paymentDecision' = TRUE
  /\ UNCHANGED <<circuitBreakers, cpc, cin, cattempt, offered, requirements, cres, trace,
                 signatures, paidRequests, fetches, refusedAt, answered>>
  /\ UNCHANGED outsideClient

\* request(url, options) up to the first await: the breaker's check, then the first fetch
Request(host, maxAmount) ==
  LET breakers == getCircuitBreaker(circuitBreakers, host)
      head == ExecuteHead(breakers[host], clientNow) IN
  /\ cpc \in {"idle", "done"}
  /\ cin' = [host |-> host, maxAmount |-> maxAmount]
  /\ offered' = <<>>
  /\ requirements' = None
  /\ signatures' = 0
  /\ paidRequests' = 0
  /\ refusedAt' = 0
  /\ answered' = 0
  /\ circuitBreakers' = [breakers EXCEPT ![host] = head.cb]
  /\ IF head.admit
       THEN /\ cpc' = "fetch"
            /\ cattempt' = 1
            /\ trace' = <<"request">>
            /\ fetches' = 1
            /\ cres' = NoClientResult
       ELSE /\ cpc' = "done"
            /\ cattempt' = 0
            /\ trace' = <<>>
            /\ fetches' = 0
            /\ cres' = Rejection("CircuitBreakerOpenError", OpenMsg)
  /\ UNCHANGED paymentDecision
  /\ UNCHANGED outsideClient

\* withRetry's promise settles: execute() runs onSuccess or onFailure and settles alike
RequestSettled(result) ==
  /\ circuitBreakers' = [circuitBreakers EXCEPT ![cin.host] =
                           IF result.kind = "resolved" THEN onSuccess(@)
                           ELSE onFailure(@, clientNow)]
  /\ cpc' = "done"
  /\ cres' = result

\* the pipeline throws: withRetry rethrows on the last attempt or a non-retryable error
AttemptThrown(message) ==
  IF cattempt = ClientMaxAttempts \/ ~clientIsRetryable(message)
    THEN RequestSettled(Rejection("Error", message))
    ELSE cpc' = "backoff" /\ UNCHANGED <<circuitBreakers, cres>>

\* the first fetch and response.json() settle; on 402 the option is selected and
\* emitInitiated is awaited
Fetched(outcome) ==
  /\ cpc = "fetch"
  /\ IF outcome.kind = "response" /\ outcome.json /\ outcome.status = PaymentRequired
          /\ outcome.accepts # <<>>
       THEN /\ offered' = outcome.accepts
            /\ requirements' = Some(selectBestPaymentOption(outcome.accepts))
            /\ trace' = trace \o <<"select", "initiated">>
            /\ cpc' = "initiated"
            /\ UNCHANGED <<circuitBreakers, cres>>
       ELSE /\ UNCHANGED <<offered, requirements, trace>>
            /\ IF outcome.kind = "throw" THEN AttemptThrown(FetchMsg)
               ELSE IF ~outcome.json THEN AttemptThrown(JsonMsg)
               ELSE IF outcome.status = PaymentRequired THEN AttemptThrown(NoOptionsMsg)
               ELSE RequestSettled(ClientResult("resolved", outcome.status, FALSE, None, None,
                                                [name |-> "none", message |-> None]))
  /\ answered' = IF outcome.kind = "response" THEN outcome.status ELSE 0
  /\ UNCHANGED <<paymentDecision, cin, cattempt, signatures, paidRequests, fetches, refusedAt>>
  /\ UNCHANGED outsideClient

\* the maxAmount check and, when it passes, the call of wallet.signPaymentAuthorization
CheckMaxAmount ==
  LET checked == IF Truthy(cin.maxAmount) THEN <<"maxAmount">> ELSE <<>> IN
  IF Truthy(cin.maxAmount) /\ requirements[1].maxAmountRequired > cin.maxAmount.amount
    THEN /\ AttemptThrown(ExceedsMaxMsg)
         /\ trace' = trace \o checked
         /\ refusedAt' = cattempt
    ELSE /\ cpc' = "sign"
         /\ trace' = trace \o checked \o <<"sign">>
         /\ UNCHANGED <<circuitBreakers, cres, refusedAt>>

\* emitInitiated settles; the decision callback is called when one is set
Initiated(listenerThrows) ==
  /\ cpc = "initiated"
  /\ IF ~EmitCompletes(listenerThrows)
       THEN AttemptThrown(ListenerMsg) /\ UNCHANGED <<trace, refusedAt>>
     ELSE IF paymentDecision
       THEN /\ cpc' = "decision"
            /\ trace' = trace \o <<"decision">>
            /\ UNCHANGED <<circuitBreakers, cres, refusedAt>>
     ELSE CheckMaxAmount
  /\ UNCHANGED <<paymentDecision, cin, cattempt, offered, requirements, signatures,
                 paidRequests, fetches, answered>>
  /\ UNCHANGED outsideClient

\* the decision callback settles
Decided(approved) ==
  /\ cpc = "decision"
  /\ IF approved THEN CheckMaxAmount
     ELSE AttemptThrown(DeclinedMsg) /\ refusedAt' = cattempt /\ UNCHANGED trace
  /\ UNCHANGED <<paymentDecision, cin, cattempt, offered, requirements, signatures,
                 paidRequests, fetches, answered>>
  /\ UNCHANGED outsideClient

\* signPaymentAuthorization settles (getNetwork throws for an unknown network);
\* emitSigned is awaited
Signed ==
  /\ cpc = "sign"
  /\ IF getNetworkThrows(requirements[1].network)
       THEN AttemptThrown(NetworkMsg) /\ UNCHANGED <<trace, signatures>>
       ELSE /\ cpc' = "signed"
            /\ trace' = trace \o <<"signed">>
            /\ signatures' = signatures + 1
            /\ UNCHANGED <<circuitBreakers, cres>>
  /\ UNCHANGED <<paymentDecision, cin, cattempt, offered, requirements, paidRequests,
                 fetches, refusedAt, answered>>
  /\ UNCHANGED outsideClient

\* emitSigned settles; the request is sent again with X-PAYMENT
SignedEmitted(listenerThrows) ==
  /\ cpc = "signed"
  /\ IF ~EmitCompletes(listenerThrows)
       THEN AttemptThrown(ListenerMsg) /\ UNCHANGED <<trace, paidRequests, fetches>>
       ELSE /\ cpc' = "paid"
            /\ trace' = trace \o <<"paid">>
            /\ paidRequests' = paidRequests + 1
            /\ fetches' = fetches + 1
            /\ UNCHANGED <<circuitBreakers, cres>>
  /\ UNCHANGED <<paymentDecision, cin, cattempt, offered, requirements, signatures, refusedAt,
                 answered>>
  /\ UNCHANGED outsideClient

\* the paid fetch and paidResponse.json() settle; the receipt header is parsed
PaidFetched(outcome) ==
  LET price == requirements[1].maxAmountRequired IN
  /\ cpc = "paid"
  /\ IF outcome.kind = "throw" THEN AttemptThrown(FetchMsg) /\ UNCHANGED trace
     ELSE IF ~outcome.json THEN AttemptThrown(JsonMsg) /\ UNCHANGED trace
     ELSE /\ trace' = trace \o <<"receipt">>
          /\ RequestSettled(ClientResult("resolved", outcome.status, TRUE,
               Some(IF outcome.receipt = "metered" THEN 1 ELSE price),
               IF outcome.receipt \in {"settled", "metered"} THEN Some("0xtx") ELSE None,
               [name |-> "none", message |-> None]))
  /\ UNCHANGED <<paymentDecision, cin, cattempt, offered, requirements, signatures,
                 paidRequests, fetches, refusedAt, answered>>
  /\ UNCHANGED outsideClient

\* withRetry's sleep is over: the next attempt starts with its first fetch
BackoffDone ==
  /\ cpc = "backoff"
  /\ cattempt' = cattempt + 1
  /\ cpc' = "fetch"
  /\ trace' = <<"request">>
  /\ fetches' = fetches + 1
  /\ offered' = <<>>
  /\ requirements' = None
  /\ answered' = 0
  /\ UNCHANGED <<circuitBreakers, paymentDecision, cin, cres, signatures, paidRequests, refusedAt>>
  /\ UNCHANGED outsideClient

\* the client reads the clock only in its breakers, where it matters once one is open
ClientNext ==
  \/ setPaymentDecision
  \/ /\ cpc \in {"idle", "done"}
     /\ \E h \in DOMAIN circuitBreakers : circuitBreakers[h].state = "open"
     /\ \E d \in {1, DefaultResetTimeoutMs - 1} : ClientTick(d)
  \/ cpc \in {"idle", "done"} /\ \E maxAmount \in MaxAmountChoices :
       Request(Host, maxAmount)
  \/ cpc = "fetch" /\ \E outcome \in FetchOutcomes : Fetched(outcome)
  \/ \E listenerThrows \in BOOLEAN : Initiated(listenerThrows)
  \/ \E approved \in BOOLEAN : Decided(approved)
  \/ Signed
  \/ \E listenerThrows \in BOOLEAN : SignedEmitted(listenerThrows)
  \/ cpc = "paid" /\ \E outcome \in PaidOutcomes : PaidFetched(outcome)
  \/ BackoffDone

\* selectBestPaymentOption applied to an accepts list, by a client that has selected nothing yet
SelectOption(accepts) ==
  /\ offered = <<>>
  /\ offered' = accepts
  /\ requirements' = Some(selectBestPaymentOption(accepts))
  /\ UNCHANGED <<circuitBreakers, paymentDecision, cpc, cin, cattempt, cres, trace, signatures,
                 paidRequests, fetches, refusedAt, answered>>
  /\ UNCHANGED outsideClient

SelectNext == \E accepts \in AcceptLists : SelectOption(accepts)

(***************************************************************************)
(* requestStream (sdk-ts/client/x402-client.ts): one pass, with no circuit *)
(* breaker and no withRetry around it, so that whatever throws rejects the *)
(* call.  Reading the body stream changes nothing the client keeps.        *)
(***************************************************************************)
UndefinedMsg == <<"Cannot", "read", "properties", "of", "undefined">>
StreamDeclinedMsg == <<"Payment", "declined">>
StreamReadMsg == <<"stream", "read", "failed">>

\* the promise of requestStream rejects
StreamRejected(name, message) ==
  /\ cpc' = "done"
  /\ cres' = Rejection(name, message)

\* requestStream(url, options, onChunk) up to the first await: the first fetch
RequestStream(host, maxAmount) ==
  /\ cpc \in {"idle", "done"}
  /\ cin' = [host |-> host, maxAmount |-> maxAmount]
  /\ offered' = <<>>
  /\ requirements' = None
  /\ signatures' = 0
  /\ paidRequests' = 0
  /\ refusedAt' = 0
  /\ answered' = 0
  /\ cpc' = "stream-fetch"
  /\ cattempt' = 1
  /\ trace' = <<"requestStream">>
  /\ fetches' = 1
  /\ cres' = NoClientResult
  /\ UNCHANGED <<circuitBreakers, paymentDecision>>
  /\ UNCHANGED outsideClient

\* the first fetch settles; on 402 response.json() settles, the option is selected and
\* emitInitiated is awaited; any other response is streamed and returned
StreamFetched(outcome, readThrows) ==
  /\ cpc = "stream-fetch"
  /\ IF outcome.kind = "throw"
       THEN StreamRejected("Error", FetchMsg) /\ UNCHANGED <<offered, requirements, trace>>
     ELSE IF outcome.status # PaymentRequired
       THEN /\ IF readThrows THEN StreamRejected("Error", StreamReadMsg)
               ELSE /\ cpc' = "done"
                    /\ cres' = ClientResult("resolved", outcome.status, FALSE, None, None,
                                            [name |-> "none", message |-> None])
            /\ UNCHANGED <<offered, requirements, trace>>
     ELSE IF ~outcome.json
       THEN StreamRejected("Error", JsonMsg) /\ UNCHANGED <<offered, requirements, trace>>
     ELSE IF outcome.accepts = <<>>
       THEN /\ StreamRejected("TypeError", UndefinedMsg)
            /\ trace' = trace \o <<"select">>
            /\ UNCHANGED <<offered, requirements>>
     ELSE /\ offered' = outcome.accepts
          /\ requirements' = Some(selectBestPaymentOption(outcome.accepts))
          /\ trace' = trace \o <<"select", "initiated">>
          /\ cpc' = "stream-initiated"
          /\ UNCHANGED cres
  /\ answered' = IF outcome.kind = "response" THEN outcome.status ELSE 0
  /\ UNCHANGED <<circuitBreakers, paymentDecision, cin, cattempt, signatures, paidRequests,
                 fetches, refusedAt>>
  /\ UNCHANGED outsideClient

\* emitInitiated settles; the decision callback is called when one is set, else
\* wallet.signPaymentAuthorization
StreamInitiated(listenerThrows) ==
  /\ cpc = "stream-initiated"
  /\ IF ~EmitCompletes(listenerThrows)
       THEN StreamRejected("Error", ListenerMsg) /\ UNCHANGED trace
     ELSE IF paymentDecision
       THEN cpc' = "stream-decision" /\ trace' = trace \o <<"decision">> /\ UNCHANGED cres
     ELSE cpc' = "stream-sign" /\ trace' = trace \o <<"sign">> /\ UNCHANGED cres
  /\ UNCHANGED <<circuitBreakers, paymentDecision, cin, cattempt, offered, requirements,
                 signatures, paidRequests, fetches, refusedAt, answered>>
  /\ UNCHANGED outsideClient

\* the decision callback settles
StreamDecided(approved) ==
  /\ cpc = "stream-decision"
  /\ IF approved
       THEN cpc' = "stream-sign" /\ trace' = trace \o <<"sign">> /\ UNCHANGED <<cres, refusedAt>>
       ELSE /\ StreamRejected("Error", StreamDeclinedMsg)
            /\ refusedAt' = cattempt
            /\ UNCHANGED trace
  /\ UNCHANGED <<circuitBreakers, paymentDecision, cin, cattempt, offered, requirements,
                 signatures, paidRequests, fetches, answered>>
  /\ UNCHANGED outsideClient

\* signPaymentAuthorization settles; the request is sent again with X-PAYMENT
StreamSigned ==
  /\ cpc = "stream-sign"
  /\ IF getNetworkThrows(requirements[1].network)
       THEN /\ StreamRejected("Error", NetworkMsg)
            /\ UNCHANGED <<trace, signatures, paidRequests, fetches>>
       ELSE /\ cpc' = "stream-paid"
            /\ trace' = trace \o <<"paid">>
            /\ signatures' = signatures + 1
            /\ paidRequests' = paidRequests + 1
            /\ fetches' = fetches + 1
            /\ UNCHANGED cres
  /\ UNCHANGED <<circuitBreakers, paymentDecision, cin, cattempt, offered, requirements,
                 refusedAt, answered>>
  /\ UNCHANGED outsideClient

\* the paid fetch settles and its body is read to the end
StreamPaidFetched(outcome, readThrows) ==
  /\ cpc = "stream-paid"
  /\ IF outcome.kind = "throw" THEN StreamRejected("Error", FetchMsg)
     ELSE IF readThrows THEN StreamRejected("Error", StreamReadMsg)
     ELSE /\ cpc' = "done"
          /\ cres' = ClientResult("resolved", outcome.status, TRUE,
                                  Some(offered[1].maxAmountRequired), None,
                                  [name |-> "none", message |-> None])
  /\ UNCHANGED <<circuitBreakers, paymentDecision, cin, cattempt, offered, requirements, trace,
                 signatures, paidRequests, fetches, refusedAt, answered>>
  /\ UNCHANGED outsideClient

StreamNext ==
  \/ setPaymentDecision
  \/ \E maxAmount \in MaxAmountChoices : RequestStream(Host, maxAmount)
  \/ \E outcome \in FetchOutcomes, readThrows \in BOOLEAN : StreamFetched(outcome, readThrows)
  \/ \E listenerThrows \in BOOLEAN : StreamInitiated(listenerThrows)
  \/ \E approved \in BOOLEAN : StreamDecided(approved)
  \/ StreamSigned
  \/ \E outcome \in PaidOutcomes, readThrows \in BOOLEAN : StreamPaidFetched(outcome, readThrows)

(***************************************************************************)
(* Server middleware (sdk-ts/server/middleware.ts): the Express middleware *)
(* of createX402Middleware and the Hono adapter x402Hono.  The facilitator *)
(* is the environment: its /verify or /settle answer arrives in a later    *)
(* step.  Hooks and the route handler return normally.                     *)
(***************************************************************************)
\* routeConfig.requirements: one PaymentRequirements, or an array of them
RouteRequirements ==
  {[array |-> FALSE, list |-> <<Offer(1, Net)>>],
   [array |-> TRUE, list |-> <<Offer(1, Net)>>],
   [array |-> TRUE, list |-> <<Offer(MaxPrice, "ethereum-mainnet"), Offer(1, Net)>>]}

\* the route's configuration; config.onPayment exists for createX402Middleware only
RouteConfigs ==
  [requirements : RouteRequirements, settleThenRespond : BOOLEAN,
   onPayment : BOOLEAN, globalOnPayment : BOOLEAN]

GatewayCalls ==
  {[adapter |-> a, config |-> c, matched |-> m, paymentHeader |-> p] :
     a \in {"express", "hono"}, c \in RouteConfigs, m \in BOOLEAN, p \in BOOLEAN}
    \ {g \in [adapter : {"hono"}, config : RouteConfigs, matched : BOOLEAN,
              paymentHeader : BOOLEAN] : ~g.matched \/ g.config.globalOnPayment}

\* what response.json() of the facilitator's answer yields, or the fetch failing
FacilitatorAnswers ==
  {[kind |-> "throw", positive |-> FALSE, txHash |-> None]}
    \cup {[kind |-> "json", positive |-> FALSE, txHash |-> None]}
    \cup {[kind |-> "json", positive |-> TRUE, txHash |-> t] : t \in {None, Some("0xtx")}}

\* accepts that lists the first requirement only
FirstRequirement(configured) == <<configured.list[1]>>

\* Array.isArray(r) ? r : [r]
AllRequirements(configured) == configured.list

\* a gate that takes any JSON answer for approval
ApprovesAnyJson(answer) == answer.kind = "json"

\* result.isValid, result.success
Approves(answer) == answer.kind = "json" /\ answer.positive

\* encodePaymentHeader(result)
EncodeReceipt(answer) == <<"base64", "json", [success |-> answer.positive, txHash |-> answer.txHash]>>

Response(status, body, paymentResponse) ==
  [status |-> status, body |-> body, paymentResponse |-> paymentResponse]

NoResponse == Response(0, "none", None)

GatewayInit ==
  /\ gpc = "idle"
  /\ gin = [adapter |-> "none", config |-> [requirements |-> [array |-> FALSE, list |-> <<>>],
              settleThenRespond |-> FALSE, onPayment |-> FALSE, globalOnPayment |-> FALSE],
            matched |-> FALSE, paymentHeader |-> FALSE]
  /\ gsent = None
  /\ ganswer = "none"
  /\ glog = <<>>
  /\ gres = NoResponse

\* the middleware up to the facilitator call
Middleware(call) ==
  /\ gpc \in {"idle", "done"}
  /\ gin' = call
  /\ ganswer' = "none"
  /\ IF ~call.matched
       THEN /\ gpc' = "done"
            /\ glog' = <<"next">>
            /\ gres' = Response(200, "handler", None)
            /\ gsent' = None
     ELSE IF ~call.paymentHeader
       THEN /\ gpc' = "done"
            /\ glog' = <<>>
            /\ gres' = Response(PaymentRequired,
                 [x402Version |-> X402Version,
                  accepts |-> AllRequirements(call.config.requirements),
                  error |-> "Payment required"], None)
            /\ gsent' = None
     ELSE /\ gpc' = "facilitator"
          /\ glog' = <<IF call.config.settleThenRespond THEN "settle" ELSE "verify">>
          /\ gres' = NoResponse
          /\ gsent' = Some(call.config.requirements.list[1])
  /\ UNCHANGED outsideGateway

\* the hooks called and the header set before next(), per adapter and mode
OnApproval(call) ==
  IF call.config.settleThenRespond
    THEN <<"setHeader">>
           \o (IF call.config.onPayment THEN <<"onPayment">> ELSE <<>>)
           \o (IF call.adapter = "express" /\ call.config.globalOnPayment
                 THEN <<"globalOnPayment">> ELSE <<>>)
    ELSE IF call.adapter = "express" /\ call.config.globalOnPayment
           THEN <<"globalOnPayment">> ELSE <<>>

\* the facilitator's answer arrives
FacilitatorAnswered(answer) ==
  /\ gpc = "facilitator"
  /\ gpc' = "done"
  /\ ganswer' = IF answer.kind = "throw" THEN "throw"
                ELSE IF answer.positive THEN "positive" ELSE "negative"
  /\ IF Approves(answer)
       THEN /\ glog' = glog \o OnApproval(gin) \o <<"next">>
            /\ gres' = Response(200, "handler",
                 IF gin.config.settleThenRespond THEN Some(EncodeReceipt(answer)) ELSE None)
     ELSE IF answer.kind = "json"
       THEN /\ glog' = glog
            /\ gres' = Response(400, IF gin.config.settleThenRespond THEN "Settlement failed"
                                     ELSE "Verification failed", None)
     ELSE /\ glog' = glog
          /\ gres' = IF gin.adapter = "express"
                       THEN Response(500, IF gin.config.settleThenRespond
                                            THEN "Settlement error" ELSE "Verification error", None)
                       ELSE Response(0, "thrown", None)
  /\ UNCHANGED <<gin, gsent>>
  /\ UNCHANGED outsideGateway

GatewayNext ==
  \/ gpc \in {"idle", "done"} /\ \E call \in GatewayCalls : Middleware(call)
  \/ \E answer \in FacilitatorAnswers : FacilitatorAnswered(answer)

(***************************************************************************)
(* The RateLimiter (core/utils/retry.ts) and the facilitator's HTTP        *)
(* surface (facilitator/routes.ts).  Token counts are kept in thousandths  *)
(* of a token, which holds elapsed-ms * refillRate / 1000 exactly for      *)
(* whole rates; the rounding of IEEE doubles is not modelled.  The clock   *)
(* does not go back and tryConsume is given whole n >= 0.  What a route    *)
(* handler answers is an input here: the verifier and the settler are      *)
(* modelled above.                                                         *)
(***************************************************************************)
Min(a, b) == IF a <= b THEN a ELSE b

\* new RateLimiter(options)
RateLimiter(maxTokens, refillRatePerSecond, nowMs) ==
  [tokens |-> maxTokens * MsPerSecond, maxTokens |-> maxTokens,
   refillRate |-> refillRatePerSecond, lastRefill |-> nowMs]

\* a refill that adds whole tokens only
refillWholeTokens(rl, nowMs) ==
  [rl EXCEPT !.tokens = Min(rl.maxTokens * MsPerSecond,
                            @ + (((nowMs - rl.lastRefill) * rl.refillRate) \div MsPerSecond) * MsPerSecond),
             !.lastRefill = nowMs]

refill(rl, nowMs) ==
  [rl EXCEPT !.tokens = Min(rl.maxTokens * MsPerSecond, @ + (nowMs - rl.lastRefill) * rl.refillRate),
             !.lastRefill = nowMs]

\* a test that lets a request through on any fraction of a token
tryConsumeAnyFraction(rl, n, nowMs) ==
  LET r == refill(rl, nowMs)
  IN  IF r.tokens > 0 \/ n = 0 THEN [ok |-> TRUE, rl |-> [r EXCEPT !.tokens = @ - Min(@, n * MsPerSecond)]]
      ELSE [ok |-> FALSE, rl |-> r]

tryConsume(rl, n, nowMs) ==
  LET r == refill(rl, nowMs)
  IN  IF r.tokens >= n * MsPerSecond THEN [ok |-> TRUE, rl |-> [r EXCEPT !.tokens = @ - n * MsPerSecond]]
      ELSE [ok |-> FALSE, rl |-> r]

getAvailableTokens(rl, nowMs) ==
  LET r == refill(rl, nowMs) IN [value |-> r.tokens \div MsPerSecond, rl |-> r]

NoReturn == [op |-> "none", n |-> 0, ok |-> FALSE, value |-> 0, at |-> 0]

NoSpent == [valid |-> FALSE, k |-> 0, at |-> 0]

HttpResponse(status, body, requestId, handled) ==
  [status |-> status, body |-> body, requestId |-> requestId, handled |-> handled]

NoHttpResponse == HttpResponse(0, "none", FALSE, FALSE)

\* the routes served, with the statuses their handlers answer
Routes ==
  {[path |-> "/health", status |-> 200]}
    \cup {[path |-> p, status |-> st] : p \in {"/verify", "/settle"}, st \in {200, 400, 500}}

LimiterInit ==
  /\ limiterNow = StartMs
  /\ limiterTicks = 0
  /\ limiter = RateLimiter(DefaultRateLimit, DefaultRateLimit, StartMs)
  /\ limiterOps = 0
  /\ returned = NoReturn
  /\ spent = NoSpent
  /\ rateLimitEnabled = TRUE
  /\ requests = 0
  /\ response = NoHttpResponse

LimiterFresh == limiterTicks = 0 /\ limiterOps = 0 /\ requests = 0 /\ limiter.tokens = limiter.maxTokens * MsPerSecond

\* new RateLimiter({maxTokens, refillRatePerSecond})
NewRateLimiter(maxTokens, refillRatePerSecond) ==
  /\ LimiterFresh
  /\ limiter' = RateLimiter(maxTokens, refillRatePerSecond, limiterNow)
  /\ UNCHANGED <<limiterNow, limiterTicks, limiterOps, returned, spent, rateLimitEnabled,
                 requests, response>>
  /\ UNCHANGED outsideLimiter

\* createRoutes(verifier, settler, options): rateLimit is omitted or given
createRoutes(enabled, rateLimit) ==
  /\ LimiterFresh
  /\ limiter' = LET rate == IF rateLimit = None THEN DefaultRateLimit ELSE rateLimit[1]
                IN  RateLimiter(rate, rate, limiterNow)
  /\ rateLimitEnabled' = enabled
  /\ UNCHANGED <<limiterNow, limiterTicks, limiterOps, returned, spent, requests, response>>
  /\ UNCHANGED outsideLimiter

LimiterTick(d) ==
  /\ limiterTicks < MaxLimiterTicks
  /\ limiterNow' = limiterNow + d
  /\ limiterTicks' = limiterTicks + 1
  /\ UNCHANGED <<limiter, limiterOps, returned, spent, rateLimitEnabled, requests, response>>
  /\ UNCHANGED outsideLimiter

\* history: n tokens leave the bucket now
Spend(before, n) ==
  IF n = 0 THEN spent
  ELSE IF before.tokens = before.maxTokens * MsPerSecond
    THEN [valid |-> TRUE, k |-> n, at |-> limiterNow]
  ELSE IF spent.valid /\ spent.at = limiterNow THEN [spent EXCEPT !.k = @ + n]
  ELSE NoSpent

\* limiter.tryConsume(n)
TryConsume(n) ==
  /\ limiterOps < MaxLimiterOps
  /\ limiterOps' = limiterOps + 1
  /\ LET call == tryConsume(limiter, n, limiterNow)
     IN  /\ limiter' = call.rl
         /\ returned' = [op |-> "tryConsume", n |-> n, ok |-> call.ok, value |-> 0, at |-> limiterNow]
         /\ spent' = IF call.ok THEN Spend(refill(limiter, limiterNow), n) ELSE spent
  /\ UNCHANGED <<limiterNow, limiterTicks, rateLimitEnabled, requests, response>>
  /\ UNCHANGED outsideLimiter

\* limiter.getAvailableTokens()
GetAvailableTokens ==
  /\ limiterOps < MaxLimiterOps
  /\ limiterOps' = limiterOps + 1
  /\ LET call == getAvailableTokens(limiter, limiterNow)
     IN  /\ limiter' = call.rl
         /\ returned' = [op |-> "getAvailableTokens", n |-> 0, ok |-> TRUE, value |-> call.value,
                          at |-> limiterNow]
  /\ UNCHANGED <<limiterNow, limiterTicks, spent, rateLimitEnabled, requests, response>>
  /\ UNCHANGED outsideLimiter

\* the middleware chain: the request id middleware runs when the rate limiter calls next()
RequestIdSet(admitted) == admitted

\* one HTTP request through the middleware chain to its route
Serve(route) ==
  /\ requests < MaxRequests
  /\ requests' = requests + 1
  /\ LET call == IF rateLimitEnabled THEN tryConsume(limiter, 1, limiterNow)
                 ELSE [ok |-> TRUE, rl |-> limiter]
     IN  /\ limiter' = call.rl
         /\ spent' = IF rateLimitEnabled /\ call.ok THEN Spend(refill(limiter, limiterNow), 1)
                     ELSE spent
         /\ response' = IF call.ok
                          THEN HttpResponse(route.status, route.path, RequestIdSet(TRUE), TRUE)
                          ELSE HttpResponse(TooManyRequests, "Rate limit exceeded",
                                            RequestIdSet(FALSE), FALSE)
  /\ UNCHANGED <<limiterNow, limiterTicks, limiterOps, returned, rateLimitEnabled>>
  /\ UNCHANGED outsideLimiter

LimiterSteps == {1, 499, 500, MsPerSecond}

LimiterNext ==
  \/ \E m \in 1..MaxTokens, r \in 1..MaxTokens : NewRateLimiter(m, r)
  \/ \E d \in LimiterSteps : LimiterTick(d)
  \/ \E n \in 0..(MaxTokens + 1) : TryConsume(n)
  \/ GetAvailableTokens

RoutesNext ==
  \/ \E enabled \in BOOLEAN, rateLimit \in {None} \cup {Some(r) : r \in 1..MaxTokens} :
       createRoutes(enabled, rateLimit)
  \/ \E d \in LimiterSteps : LimiterTick(d)
  \/ \E route \in Routes : Serve(route)

(***************************************************************************)
(* The PaymentEventBus (core/events/event-bus.ts).  A Set is the sequence  *)
(* of its members in insertion order and its iterator a position in that   *)
(* sequence, which a deletion at or before it moves back: members deleted  *)
(* ahead of the iterator are not visited, members added are.  A listener   *)
(* call and its settling are two steps, with subscriptions changing in     *)
(* between; one emit() is pending at a time.                               *)
(***************************************************************************)
EventTypes == {"payment:settled", "payment:failed"}

Listeners == {"l1", "l2"}

GlobalScope == "*"

PositionIn(set, l) == CHOOSE i \in DOMAIN set : set[i] = l

SetAdd(set, l) == IF \E i \in DOMAIN set : set[i] = l THEN set ELSE Append(set, l)

SetDelete(set, l) == SelectSeq(set, LAMBDA x : x # l)

\* the subscriptions an event of this type is delivered to
SubscribedTo(type) ==
  {<<type, listeners[type][i]>> : i \in DOMAIN listeners[type]}
    \cup {<<GlobalScope, globalListeners[i]>> : i \in DOMAIN globalListeners}

NoEmit == [pc |-> "idle", event |-> [type |-> "none", n |-> 0], scope |-> "none", index |-> 0,
           result |-> "none"]

BusInit ==
  /\ listeners = [t \in EventTypes |-> <<>>]
  /\ globalListeners = <<>>
  /\ eventHistory = <<>>
  /\ maxHistorySize = DefaultMaxHistorySize
  /\ ecall = NoEmit
  /\ handles = {}
  /\ emits = 0
  /\ subscribes = 0
  /\ emitted = <<>>
  /\ delivery = <<>>
  /\ atStart = {}
  /\ added = {}
  /\ removed = {}

\* new PaymentEventBus({maxHistorySize})
NewPaymentEventBus(size) ==
  /\ emits = 0 /\ subscribes = 0 /\ maxHistorySize = DefaultMaxHistorySize
  /\ maxHistorySize' = size
  /\ UNCHANGED <<listeners, globalListeners, eventHistory, ecall, handles, emits, subscribes,
                 emitted, delivery, atStart, added, removed>>
  /\ UNCHANGED outsideBus

Pending == ecall.pc = "await"

\* on(eventType, listener)
On(type, l) ==
  /\ subscribes < MaxSubscribes
  /\ subscribes' = subscribes + 1
  /\ listeners' = [listeners EXCEPT ![type] = SetAdd(@, l)]
  /\ handles' = handles \cup {<<type, l>>}
  /\ added' = IF Pending /\ type = ecall.event.type THEN added \cup {<<type, l>>} ELSE added
  /\ UNCHANGED <<globalListeners, eventHistory, maxHistorySize, ecall, emits, emitted, delivery,
                 atStart, removed>>
  /\ UNCHANGED outsideBus

\* onAll(listener)
OnAll(l) ==
  /\ subscribes < MaxSubscribes
  /\ subscribes' = subscribes + 1
  /\ globalListeners' = SetAdd(globalListeners, l)
  /\ handles' = handles \cup {<<GlobalScope, l>>}
  /\ added' = IF Pending THEN added \cup {<<GlobalScope, l>>} ELSE added
  /\ UNCHANGED <<listeners, eventHistory, maxHistorySize, ecall, emits, emitted, delivery,
                 atStart, removed>>
  /\ UNCHANGED outsideBus

\* the iterator of the Set being walked, after l is deleted from that Set
IteratorAfterDelete(set, l) ==
  IF (\E i \in DOMAIN set : set[i] = l) /\ PositionIn(set, l) <= ecall.index
    THEN [ecall EXCEPT !.index = @ - 1]
    ELSE ecall

\* the function returned by on() or onAll() is called
Unsubscribe(scope, l) ==
  /\ <<scope, l>> \in handles
  /\ <<scope, l>> \in UNION {SubscribedTo(t) : t \in EventTypes}
  /\ IF scope = GlobalScope
       THEN /\ globalListeners' = SetDelete(globalListeners, l)
            /\ UNCHANGED listeners
       ELSE /\ listeners' = [listeners EXCEPT ![scope] = SetDelete(@, l)]
            /\ UNCHANGED globalListeners
  /\ ecall' = IF Pending /\ scope = ecall.scope
                THEN IteratorAfterDelete(IF scope = GlobalScope THEN globalListeners
                                         ELSE listeners[scope], l)
                ELSE ecall
  /\ removed' = IF Pending /\ scope \in {GlobalScope, ecall.event.type}
                  THEN removed \cup {<<scope, l>>} ELSE removed
  /\ UNCHANGED <<eventHistory, maxHistorySize, handles, emits, subscribes, emitted, delivery,
                 atStart, added>>
  /\ UNCHANGED outsideBus

\* history kept without the shift
PushKeepAll(history, event, size) == Append(history, event)

\* eventHistory.push(event), then one shift() when the length exceeds maxHistorySize
Push(history, event, size) ==
  LET pushed == Append(history, event)
  IN  IF Len(pushed) > size THEN Tail(pushed) ELSE pushed

\* a listener's failure left to propagate
AfterListenerUncaught(outcome) == IF outcome = "ok" THEN "continue" ELSE "reject"

\* try { await listener(event) } catch { console.error(...) }
AfterListener(outcome) == "continue"

\* emit's loops from the iterator's position on, up to the next listener call
Advance(call, typed, global) ==
  IF call.scope # GlobalScope /\ call.index < Len(typed)
    THEN [call EXCEPT !.pc = "await", !.index = @ + 1]
  ELSE LET done == IF call.scope = GlobalScope THEN call.index ELSE 0
       IN  IF done < Len(global)
             THEN [call EXCEPT !.pc = "await", !.scope = GlobalScope, !.index = done + 1]
             ELSE [call EXCEPT !.pc = "done", !.scope = GlobalScope, !.index = done,
                               !.result = "resolved"]

\* the listener emit() is about to call
Current(call, typed, global) ==
  <<call.scope, IF call.scope = GlobalScope THEN global[call.index] ELSE typed[call.index]>>

StartLog(call, typed, global) ==
  IF call.pc = "await" THEN <<[sub |-> Current(call, typed, global), at |-> "start"]>> ELSE <<>>

\* emit(event) is called and runs to its first await
Emit(type) ==
  /\ ecall.pc = "idle"
  /\ emits < MaxEmits
  /\ emits' = emits + 1
  /\ LET event == [type |-> type, n |-> emits + 1]
         call == Advance([NoEmit EXCEPT !.event = event, !.scope = type],
                         listeners[type], globalListeners)
     IN  /\ eventHistory' = Push(eventHistory, event, maxHistorySize)
         /\ emitted' = Append(emitted, event)
         /\ ecall' = call
         /\ delivery' = StartLog(call, listeners[type], globalListeners)
  /\ atStart' = SubscribedTo(type)
  /\ added' = {}
  /\ removed' = {}
  /\ UNCHANGED <<listeners, globalListeners, maxHistorySize, handles, subscribes>>
  /\ UNCHANGED outsideBus

\* the awaited listener returns, throws or rejects; emit() runs on to its next await
ListenerSettled(outcome) ==
  /\ ecall.pc = "await"
  /\ LET typed == listeners[ecall.event.type]
         ended == Append(delivery, [sub |-> delivery[Len(delivery)].sub, at |-> outcome])
         call == IF AfterListener(outcome) = "continue"
                   THEN Advance(ecall, typed, globalListeners)
                   ELSE [ecall EXCEPT !.pc = "done", !.result = "rejected"]
     IN  /\ ecall' = call
         /\ delivery' = ended \o StartLog(call, typed, globalListeners)
  /\ UNCHANGED <<listeners, globalListeners, eventHistory, maxHistorySize, handles, emits,
                 subscribes, emitted, atStart, added, removed>>
  /\ UNCHANGED outsideBus

\* the caller of emit() goes on
EmitReturn ==
  /\ ecall.pc = "done"
  /\ ecall' = NoEmit
  /\ delivery' = <<>>
  /\ atStart' = {}
  /\ added' = {}
  /\ removed' = {}
  /\ UNCHANGED <<listeners, globalListeners, eventHistory, maxHistorySize, handles, emits,
                 subscribes, emitted>>
  /\ UNCHANGED outsideBus

\* clearHistory()
ClearHistory ==
  /\ eventHistory # <<>>
  /\ eventHistory' = <<>>
  /\ emitted' = <<>>
  /\ UNCHANGED <<listeners, globalListeners, maxHistorySize, ecall, handles, emits, subscribes,
                 delivery, atStart, added, removed>>
  /\ UNCHANGED outsideBus

HistoryNext ==
  \/ \E size \in 0..MaxHistory : NewPaymentEventBus(size)
  \/ \E l \in Listeners : subscribes = 0 /\ OnAll(l)
  \/ \E type \in EventTypes : Emit(type)
  \/ \E outcome \in {"ok", "throw", "reject"} : ListenerSettled(outcome)
  \/ EmitReturn
  \/ ClearHistory

\* one emit(), with subscriptions changing before it and while it is pending
BusNext ==
  \/ (emits = 0 \/ Pending) /\ \E type \in EventTypes, l \in Listeners : On(type, l)
  \/ (emits = 0 \/ Pending) /\ \E l \in Listeners : OnAll(l)
  \/ (emits = 0 \/ Pending) /\ \E scope \in EventTypes \cup {GlobalScope}, l \in Listeners :
       Unsubscribe(scope, l)
  \/ \E type \in EventTypes : emits = 0 /\ Emit(type)
  \/ \E outcome \in {"ok", "throw", "reject"} : ListenerSettled(outcome)
  \/ EmitReturn

(***************************************************************************)
(* The wallet's nonce generation (sdk-ts/client/wallet.ts).  Nonces are    *)
(* numbers compared for equality only; crypto.getRandomValues is the       *)
(* environment, which hands generateNonce the values it draws.  The Set    *)
(* usedNonces is kept as the sequence, in insertion order, of its runs of  *)
(* consecutive numbers [lo..hi], so that a set of 10,000 nonces is a value *)
(* of a few runs.  A wallet that has signed k times with k different       *)
(* nonces is reached in one step.                                          *)
(***************************************************************************)
Run(lo, hi) == [lo |-> lo, hi |-> hi]

\* usedNonces.has(x)
Has(set, x) == \E i \in DOMAIN set : set[i].lo <= x /\ x <= set[i].hi

\* usedNonces.size
RECURSIVE Size(_)
Size(set) == IF set = <<>> THEN 0 ELSE set[1].hi - set[1].lo + 1 + Size(Tail(set))

\* usedNonces.add(x)
Add(set, x) ==
  IF Has(set, x) THEN set
  ELSE IF set # <<>> /\ set[Len(set)].hi + 1 = x
    THEN [set EXCEPT ![Len(set)].hi = x]
  ELSE Append(set, Run(x, x))

\* new Set([...usedNonces].slice(-n))
RECURSIVE SliceLast(_, _)
SliceLast(set, n) ==
  LET excess == Size(set) - n
      first == set[1].hi - set[1].lo + 1
  IN  IF excess <= 0 THEN set
      ELSE IF first <= excess THEN SliceLast(Tail(set), n)
      ELSE <<Run(set[1].lo + excess, set[1].hi)>> \o Tail(set)

\* the values drawn by one generateNonce() call: the same used nonce up to draw k - 1,
\* then one value from draw k on
Draws(used) ==
  LET fresh == IF used = <<>> THEN 1 ELSE used[Len(used)].hi + 1
      taken == IF used = <<>> THEN {} ELSE {used[1].lo, used[Len(used)].hi}
  IN  {[i \in 1..MaxDrawAttempts |-> IF i < k THEN c ELSE f] :
         c \in taken \cup {fresh}, f \in taken \cup {fresh},
         k \in {1, 2, MaxDrawAttempts, MaxDrawAttempts + 1}}

\* the do-while loop: draw until the nonce is unused or 100 draws are made
RECURSIVE DrawLoop(_, _, _)
DrawLoop(used, draws, attempts) ==
  LET nonce == draws[attempts + 1]
  IN  IF Has(used, nonce) /\ attempts + 1 < MaxDrawAttempts
        THEN DrawLoop(used, draws, attempts + 1)
        ELSE [nonce |-> nonce, attempts |-> attempts + 1]

\* the garbage collection of old nonces
CollectNonces(used) ==
  IF Size(used) > NonceGcThreshold THEN SliceLast(used, NonceGcKeep) ELSE used

\* generateNonce(): the nonce returned and the set afterwards
generateNonce(used, draws) ==
  LET drawn == DrawLoop(used, draws, 0)
  IN  [nonce |-> drawn.nonce, attempts |-> drawn.attempts,
       used |-> CollectNonces(Add(used, drawn.nonce))]

WalletInit ==
  /\ usedNonces = <<>>
  /\ signs = 0
  /\ generated = <<>>

\* k generateNonce() calls that drew k different nonces
SignedMany(k) ==
  /\ usedNonces = <<>> /\ signs = 0
  /\ usedNonces' = <<Run(1, k)>>
  /\ UNCHANGED <<signs, generated>>
  /\ UNCHANGED outsideWallet

\* one generateNonce() call, made by signPaymentAuthorization
GenerateNonce(draws) ==
  /\ signs < MaxSigns
  /\ signs' = signs + 1
  /\ LET call == generateNonce(usedNonces, draws)
     IN  /\ usedNonces' = call.used
         /\ generated' = <<[nonce |-> call.nonce, attempts |-> call.attempts]>>
  /\ UNCHANGED outsideWallet

WalletNext ==
  \/ \E k \in {1, 2, NonceGcKeep, NonceGcThreshold - 1, NonceGcThreshold} : SignedMany(k)
  \/ \E draws \in Draws(usedNonces) : GenerateNonce(draws)

(***************************************************************************)
(* withRetry (core/utils/retry.ts).  fn is any promise-returning function; *)
(* it settles in a later step.  Errors are compared by identity.  The      *)
(* delay is computed in integers: the options of the model make every      *)
(* product an integer.  Math.random() yields 0, 1/2 or nearly 1.  onRetry  *)
(* returns normally.                                                       *)
(***************************************************************************)
RetryErrors == {"e1", "e2"}

\* options.isRetryable: omitted, or a predicate that rejects e2
RetryPredicates == {"omitted", "notE2"}

RetryOptions ==
  [maxAttempts : {None} \cup {Some(n) : n \in 1..MaxRetries},
   baseDelayMs : {None, Some(20000)},
   maxDelayMs : {None, Some(1500)},
   isRetryable : RetryPredicates]

NoRetryOptions ==
  [maxAttempts |-> None, baseDelayMs |-> None, maxDelayMs |-> None, isRetryable |-> "omitted"]

\* the destructuring defaults of withRetry
Defaulted(given, default) == IF given = None THEN default ELSE given[1]

\* isRetryable = () => true
Retryable(options, error) == options.isRetryable = "omitted" \/ error # "e2"

RECURSIVE Pow(_, _)
Pow(b, n) == IF n = 0 THEN 1 ELSE b * Pow(b, n - 1)

\* the delay without the cap of maxDelayMs
DelayUncapped(options, n, random) ==
  LET exponentialDelay == Defaulted(options.baseDelayMs, DefaultBaseDelayMs)
                            * Pow(BackoffMultiplier, n - 1)
  IN  exponentialDelay + (exponentialDelay \div JitterDivisor) * random

\* the delay left uncapped
DelayNoCap(options, n, random) == DelayUncapped(options, n, random)

\* Math.min(exponentialDelay + jitterAmount, maxDelayMs); random is Math.random() * 2 - 1
Delay(options, n, random) ==
  Min(DelayUncapped(options, n, random), Defaulted(options.maxDelayMs, DefaultMaxDelayMs))

RetryInit ==
  /\ rpc = "idle"
  /\ ropt = NoRetryOptions
  /\ rattempt = 0
  /\ rlog = <<>>
  /\ rres = [kind |-> "none", error |-> "none"]

\* withRetry(fn, options) is called: the loop starts and fn is invoked
WithRetry(options) ==
  /\ rpc = "idle"
  /\ ropt' = options
  /\ rattempt' = 1
  /\ rpc' = "fn"
  /\ rlog' = <<[at |-> "fn", attempt |-> 1, error |-> "none", delay |-> 0]>>
  /\ UNCHANGED rres
  /\ UNCHANGED outsideRetry

\* fn's promise settles: return its value, rethrow, or call onRetry and sleep
FnSettled(ok, error, random) ==
  /\ rpc = "fn"
  /\ IF ok
       THEN /\ rpc' = "done"
            /\ rres' = [kind |-> "resolved", error |-> "none"]
            /\ rlog' = Append(rlog, [at |-> "ok", attempt |-> rattempt, error |-> "none",
                                     delay |-> 0])
     ELSE IF rattempt = Defaulted(ropt.maxAttempts, DefaultMaxAttempts) \/ ~Retryable(ropt, error)
       THEN /\ rpc' = "done"
            /\ rres' = [kind |-> "rejected", error |-> error]
            /\ rlog' = Append(rlog, [at |-> "error", attempt |-> rattempt, error |-> error,
                                     delay |-> 0])
     ELSE /\ rpc' = "sleep"
          /\ rlog' = rlog \o
               <<[at |-> "error", attempt |-> rattempt, error |-> error, delay |-> 0],
                 [at |-> "onRetry", attempt |-> rattempt, error |-> error,
                  delay |-> Delay(ropt, rattempt, random)],
                 [at |-> "sleep", attempt |-> rattempt, error |-> "none",
                  delay |-> Delay(ropt, rattempt, random)]>>
          /\ UNCHANGED rres
  /\ UNCHANGED <<ropt, rattempt>>
  /\ UNCHANGED outsideRetry

\* the sleep is over: attempt++ and fn is invoked again
RetrySleepDone ==
  /\ rpc = "sleep"
  /\ rattempt' = rattempt + 1
  /\ rpc' = "fn"
  /\ rlog' = Append(rlog, [at |-> "fn", attempt |-> rattempt + 1, error |-> "none", delay |-> 0])
  /\ UNCHANGED <<ropt, rres>>
  /\ UNCHANGED outsideRetry

RetryNext ==
  \/ \E options \in RetryOptions : WithRetry(options)
  \/ \E ok \in BOOLEAN, error \in RetryErrors, random \in {-1, 0, 1} : FnSettled(ok, error, random)
  \/ RetrySleepDone

(***************************************************************************)
(* Specifications.  The verifier and the settler are separate objects that *)
(* share no mutable state, so the facilitator as a whole is checked with   *)
(* one of them exercised at a time.                                        *)
(***************************************************************************)
Init == VerifierInit /\ SettlerInit /\ BreakerInit /\ ClientInit /\ GatewayInit /\ LimiterInit /\ BusInit /\ WalletInit /\ RetryInit

VerifierFresh == \A c \in Calls : vpc[c] = "idle"

SpecVerifier == Init /\ [][VerifierSeqNext]_vars

SpecVerifierConc == Init /\ [][VerifierConcNext]_vars

SpecVerifierCfg == Init /\ [][VerifierCfgNext]_vars

SpecSettler == Init /\ [][SettlerNext]_vars

FacilitatorNext ==
  \/ spc = "idle" /\ VerifierSeqNext
  \/ VerifierFresh /\ nonceCache = <<>> /\ ticks = 0 /\ metrics.totalVerifications = 0
       /\ SettlerNext

SpecFacilitator == Init /\ [][FacilitatorNext]_vars

SpecBreaker == Init /\ [][BreakerNext]_vars

SpecClient == Init /\ [][ClientNext]_vars

SpecSelect == Init /\ [][SelectNext]_vars

SpecStream == Init /\ [][StreamNext]_vars

SpecGateway == Init /\ [][GatewayNext]_vars

SpecLimiter == Init /\ [][LimiterNext]_vars

SpecRoutes == Init /\ [][RoutesNext]_vars

SpecBus == Init /\ [][BusNext]_vars

SpecHistory == Init /\ [][HistoryNext]_vars

SpecWallet == Init /\ [][WalletNext]_vars

SpecRetry == Init /\ [][RetryNext]_vars

(***************************************************************************)
(* Properties.                                                             *)
(***************************************************************************)
ReplayReason == "Nonce already used (replay detected)"
WindowReason == "Authorization has expired or is not yet valid"

\* the call's payload passed the version, scheme and network checks that precede the nonce lookup
PassesMatch(c) ==
  /\ vin[c].h.x402Version = 1
  /\ vin[c].h.scheme = vin[c].R.scheme
  /\ vin[c].h.network = vin[c].R.network
  /\ vin[c].h.scheme \in {"exact", "upto"}

\* C1, as stated: with calls that do not overlap, a (network, nonce) pair is accepted at
\* most once while its cache entry exists, and every later call carrying the pair is
\* refused with a reason containing "replay".
C1_EveryLaterCallIsReplay ==
  /\ \A k \in AllKeys : accepted[k] <= 1
  /\ \A c \in Calls : vpc[c] = "done" /\ vhit[c] =>
       ~vres[c].isValid /\ vres[c].invalidReason = ReplayReason

\* C1, amended: with calls that do not overlap, a (network, nonce) pair is accepted at most
\* once while its cache entry exists; every later call carrying the pair is refused, and
\* with a reason containing "replay" when it passes the version, scheme and network checks
\* that precede the nonce lookup.
C1_AtMostOnceSequential ==
  /\ \A k \in AllKeys : accepted[k] <= 1
  /\ \A c \in Calls : vpc[c] = "done" /\ vhit[c] =>
       /\ ~vres[c].isValid
       /\ PassesMatch(c) => vres[c].invalidReason = ReplayReason

C1_Witness ==
  \E c \in Calls :
    /\ vpc[c] = "done" /\ vhit[c] /\ PassesMatch(c)
    /\ vres[c].invalidReason = ReplayReason
    /\ accepted[NonceKey(vin[c].h.network, vin[c].h.auth.nonce)] = 1

\* C2: with overlapping verify() calls too, a (network, nonce) pair is accepted at most
\* once while its cache entry exists.
C2_AtMostOnceOverlapping ==
  \A k \in AllKeys : accepted[k] < 2

\* C3: when simulateContract fails, settle() ends at once with success=false, txHash=null
\* and the simulator's reason, and submits no transaction afterwards.
C3_SimulationFailure ==
  /\ [](simFailed # None =>
          /\ spc = "done"
          /\ ~sres.success /\ ~sres.rejected
          /\ sres.txHash = None
          /\ sres.error = <<"Simulation", "failed:">> \o simFailed)
  /\ [][simFailed' # None => txs' = txs]_vars

C3_Witness ==
  /\ spc = "done"
  /\ simFailed = RevertMsg
  /\ sres.error = <<"Simulation", "failed:", "execution", "reverted">>
  /\ sres.txHash = None

\* C4: once writeContract returned a hash, the result settle() ends with reports that hash.
C4_ReportsBroadcastHash ==
  spc = "done" /\ txs # <<>> =>
    \E i \in DOMAIN txs : sres.txHash = Some(txs[i])

\* C5: the pipeline runs at most maxRetries (default 3) times; an error mentioning "nonce"
\* or "insufficient" ends the call, any other error is retried until the budget is spent,
\* and the last error's message is the error of the success=false result.
C5_RetryBudget ==
  LET max == IF sin.options.maxRetries.given THEN sin.options.maxRetries.n ELSE 3
      final == Includes(lastThrown, "nonce") \/ Includes(lastThrown, "insufficient")
      caught == spc \in {"emit", "done"} /\ svia = "catch"
  IN  /\ attempt <= max
      /\ final => caught
      /\ lastThrown # None /\ ~final /\ attempt < max => spc \in {"backoff", "sim", "write", "receipt"}
                                                           \/ svia = "return"
      /\ caught /\ lastThrown # None =>
           /\ ~sres.success
           /\ sres.error = lastThrown
           /\ final \/ attempt = max

C5_Witness ==
  /\ spc = "done" /\ svia = "catch"
  /\ ~sin.options.maxRetries.given
  /\ attempt = 3
  /\ sres.error = TransientMsg

\* C6: a settle() call that ends with success=true has emitted exactly one payment:settled
\* event with the txHash, and one that ends with success=false exactly one payment:failed
\* event with the error.
C6_OneEventPerOutcome ==
  spc = "done" =>
    IF sres.success
      THEN events = <<Event("payment:settled", sres.txHash, None)>>
      ELSE events = <<Event("payment:failed", None, sres.error)>>

Malformed(h) == h.kind \in {"garbage", "null", "scalar", "nopayload"}

C8_InsufficientAmountRefused ==
  \A c \in Calls :
    vpc[c] # "idle" /\ vin[c].h.kind = "object"
      /\ vin[c].h.auth.value < vin[c].R.maxAmountRequired =>
        vpc[c] = "done" /\ ~vres[c].isValid

C8_Witness ==
  \E c \in Calls :
    /\ vpc[c] = "done"
    /\ vin[c].h.scheme = "upto" /\ vin[c].R.scheme = "upto"
    /\ vin[c].h.auth.value < vin[c].R.maxAmountRequired
    /\ vres[c].invalidReason = "Insufficient amount"

\* C9: a call whose validBefore is before now, or whose validAfter is after now, is
\* refused, and the window check refuses nothing with validAfter <= now <= validBefore.
C9_TimeWindow ==
  \A c \in Calls :
    LET t == vat[c] \div 1000
        inside == vin[c].h.auth.validAfter <= t /\ t <= vin[c].h.auth.validBefore
    IN  vpc[c] # "idle" /\ vin[c].h.kind = "object" =>
          /\ ~inside => vpc[c] = "done" /\ ~vres[c].isValid
          /\ vpc[c] = "done" /\ vres[c].invalidReason = WindowReason => ~inside

C9_Witness ==
  \E c \in Calls :
    /\ vpc[c] = "done" /\ vres[c].isValid
    /\ vin[c].h.auth.validAfter = vat[c] \div 1000
    /\ vin[c].h.auth.validBefore = vat[c] \div 1000

\* C10: an upto settlement never succeeds with an actualAmount above authorization.value;
\* the charge is options.actualAmount, or maxAmountRequired when that is omitted, and a
\* charge above authorization.value fails at once, nothing simulated or submitted.
C10_UptoCharge ==
  LET charge == IF sin.options.actualAmount.given THEN sin.options.actualAmount.amount
                ELSE sin.R.maxAmountRequired
  IN  spc # "idle" /\ sin.h.kind = "object" /\ sin.h.scheme = "upto"
        /\ sin.options.actualAmount.numeric =>
          /\ sres.success => sres.actualAmount = Some(charge) /\ charge <= sin.h.auth.value
          /\ charge > sin.h.auth.value =>
               /\ spc = "done" /\ attempt = 1
               /\ ~sres.success /\ sres.txHash = None
               /\ sres.error = ExceedsMsg
               /\ sims = 0 /\ txs = <<>>

C10_Witness ==
  /\ spc = "done"
  /\ sin.h.scheme = "upto"
  /\ ~sin.options.actualAmount.given
  /\ sin.R.maxAmountRequired > sin.h.auth.value
  /\ sres.error = ExceedsMsg
  /\ sims = 0

\* an execute() call settles in this step, resolved (ok) or rejected by fn (error)
Settles(c, how) == bpc[c] = "running" /\ bpc'[c] = "done" /\ bres'[c] = how

\* C11: a breaker with failureThreshold n stays closed until n consecutive execute() calls
\* have failed, opens in the step in which the n-th of them completes, and a successful
\* execute() puts the failure count back to zero.
C11_OpensAtThreshold ==
  /\ [](/\ ~opened => breaker.state = "closed"
        /\ breaker.state = "closed" =>
             breaker.failureCount = cbRun /\ cbRun < breaker.failureThreshold)
  /\ [][/\ breaker.state = "closed" /\ breaker'.state = "open" =>
             (\E c \in Calls : Settles(c, "error")) /\ cbRun' = breaker.failureThreshold
        /\ (\E c \in Calls : Settles(c, "ok")) => breaker'.failureCount = 0]_vars

C11_Witness ==
  /\ breaker.state = "open"
  /\ breaker.failureThreshold = 2
  /\ cbRun = 2
  /\ \E c \in Calls : bres[c] = "error" /\ badm[c] = "closed"

\* C12: while a call let through in half-open is awaiting fn, no other call is let
\* through to fn.
C12_OneHalfOpenTrial ==
  Cardinality({c \in Calls : bpc[c] = "running" /\ badm[c] = "half-open"}) <= 1

Blocked(h) ==
  /\ h \in DOMAIN circuitBreakers
  /\ circuitBreakers[h].state = "open"
  /\ clientNow - circuitBreakers[h].lastFailureTime < circuitBreakers[h].resetTimeoutMs

OpenError == Rejection("CircuitBreakerOpenError", OpenMsg)

\* C14: while a host's breaker is open and its reset timeout has not elapsed, a request()
\* to the host rejects with CircuitBreakerOpenError, sends no HTTP request and leaves the
\* breaker as it is; request() rejects with that error in no other situation.
C14_OpenShortCircuits ==
  /\ [](cres = OpenError =>
          cpc = "done" /\ fetches = 0 /\ trace = <<>> /\ signatures = 0 /\ paidRequests = 0)
  /\ [][/\ Blocked(Host) /\ clientNow' = clientNow /\ paymentDecision' = paymentDecision =>
             cres' = OpenError /\ fetches' = 0 /\ circuitBreakers' = circuitBreakers
        /\ cres' = OpenError /\ cres # OpenError => Blocked(Host)]_vars

C14_Witness ==
  /\ cres = OpenError
  /\ circuitBreakers[Host].failureCount = ClientFailureThreshold
  /\ clientNow - circuitBreakers[Host].lastFailureTime = DefaultResetTimeoutMs - 1

Range(list) == {list[i] : i \in DOMAIN list}

\* C18: the option selected from a non-empty accepts list is one of the list with the
\* least maxAmountRequired, and an L2 option when an L2 option asks that least amount.
C18_CheapestThenL2 ==
  offered # <<>> /\ requirements # None =>
    LET best == requirements[1] IN
      /\ best \in Range(offered)
      /\ \A o \in Range(offered) : best.maxAmountRequired <= o.maxAmountRequired
      /\ (\E o \in Range(offered) : o.maxAmountRequired = best.maxAmountRequired
                                      /\ o.network \in L2Networks)
           => best.network \in L2Networks

C18_Witness ==
  /\ offered = <<Offer(2, Net), Offer(1, "ethereum-mainnet"), Offer(1, "arbitrum-one")>>
  /\ requirements = Some(Offer(1, "arbitrum-one"))

\* C19: when the decision callback returns false, or options.maxAmount is given and is
\* below the selected option's maxAmountRequired, the attempt signs nothing and sends no
\* request carrying X-PAYMENT, no further attempt follows, and request() rejects with
\* the refusal error.
C19_RefusalEndsRequest ==
  LET unpaid == Range(trace) \cap {"sign", "signed", "paid", "receipt"} = {} IN
  /\ refusedAt # 0 =>
       /\ cpc = "done" /\ cattempt = refusedAt /\ unpaid
       /\ cres.kind = "rejected" /\ cres.error.message \in {DeclinedMsg, ExceedsMaxMsg}
  /\ cin.maxAmount.given /\ requirements # None
       /\ requirements[1].maxAmountRequired > cin.maxAmount.amount => unpaid

\* the steps of one attempt, in order
PipelineOrder ==
  <<"request", "select", "initiated", "decision", "maxAmount", "sign", "signed", "paid", "receipt">>

\* C20: the steps of an attempt start in the pipeline's order, none skipped but the
\* callback and the maxAmount comparison when they are not set, and a first response whose
\* status is not 402 ends the request with paid=false and no later step.
C20_PipelineOrder ==
  LET Started(step) == step \in Range(trace)
      Always(step) == step \notin {"decision", "maxAmount"}
      always == SelectSeq(trace, Always)
  IN  /\ trace = SelectSeq(PipelineOrder, Started)
      /\ always = SubSeq(SelectSeq(PipelineOrder, Always), 1, Len(always))
      /\ answered \notin {0, PaymentRequired} =>
           cpc = "done" /\ cres.kind = "resolved" /\ ~cres.paid /\ trace = <<"request">>

\* the position of an entry in the log, or 0
At(entry) == IF entry \in Range(glog) THEN CHOOSE i \in DOMAIN glog : glog[i] = entry ELSE 0

Count(entry) == Cardinality({i \in DOMAIN glog : glog[i] = entry})

\* C15: a request to a gated route without X-PAYMENT is answered 402 with the body
\* {x402Version, accepts, error} listing every requirement of the route, with no
\* facilitator call and no handler call; a request to an unconfigured route goes to the
\* handler with no facilitator call.
C15_PaymentRequired ==
  gpc = "done" =>
    /\ gin.matched /\ ~gin.paymentHeader =>
         /\ gres = Response(PaymentRequired,
                     [x402Version |-> 1, accepts |-> gin.config.requirements.list,
                      error |-> "Payment required"], None)
         /\ glog = <<>>
    /\ ~gin.matched => glog = <<"next">>

C15_Witness ==
  /\ gpc = "done"
  /\ gin.matched /\ ~gin.paymentHeader
  /\ Len(gin.config.requirements.list) = 2
  /\ gres.status = PaymentRequired
  /\ Len(gres.body.accepts) = 2

\* C16: for a request with X-PAYMENT the handler runs only after the facilitator's
\* positive answer, /verify in verify-only mode and /settle in settle-then-serve mode,
\* there with X-PAYMENT-RESPONSE set to the encoded receipt beforehand; after a negative
\* answer the response is 400 and the handler does not run.
C16_HandlerAfterApproval ==
  gin.matched /\ gin.paymentHeader =>
    /\ glog # <<>> => glog[1] = IF gin.config.settleThenRespond THEN "settle" ELSE "verify"
    /\ At("next") # 0 =>
         /\ ganswer = "positive" /\ Count("next") = 1 /\ At("next") = Len(glog)
         /\ gin.config.settleThenRespond =>
              At("setHeader") # 0 /\ At("setHeader") < At("next")
                /\ gres.paymentResponse # None /\ gres.paymentResponse[1][3].success
    /\ ganswer = "negative" => gres.status = 400 /\ At("next") = 0

C16_Witness ==
  /\ gpc = "done"
  /\ gin.adapter = "hono" /\ gin.config.settleThenRespond
  /\ glog = <<"settle", "setHeader", "next">>
  /\ gres.paymentResponse = Some(<<"base64", "json", [success |-> TRUE, txHash |-> Some("0xtx")]>>)

\* C17: for a request that passes the gate every configured onPayment hook, the route's
\* and the global one, has fired exactly once, in both modes and both adapters; for a
\* request that does not pass, none has fired.
C17_HooksOncePerGate ==
  gpc = "done" =>
    IF gin.matched /\ gin.paymentHeader /\ At("next") # 0
      THEN /\ Count("onPayment") = IF gin.config.onPayment THEN 1 ELSE 0
           /\ Count("globalOnPayment") = IF gin.config.globalOnPayment THEN 1 ELSE 0
      ELSE Count("onPayment") = 0 /\ Count("globalOnPayment") = 0

\* C21: with rate limiting enabled, a request that finds less than one token in the
\* bucket is answered 429 with body {error: 'Rate limit exceeded'}, its route handler
\* does not run and it consumes nothing; every admitted request consumes exactly one token.
C21_RateLimited ==
  [][requests' # requests /\ rateLimitEnabled =>
       LET bucket == refill(limiter, limiterNow) IN
         /\ bucket.tokens < MsPerSecond =>
              /\ response'.status = 429 /\ response'.body = "Rate limit exceeded"
              /\ ~response'.handled
              /\ limiter'.tokens = bucket.tokens
         /\ response'.status # 429 =>
              response'.handled /\ limiter'.tokens = bucket.tokens - MsPerSecond]_vars

C21_Witness ==
  /\ rateLimitEnabled
  /\ response.status = TooManyRequests /\ ~response.handled
  /\ limiter.tokens > 0 /\ limiter.tokens < MsPerSecond

\* C22: every response of the facilitator's HTTP surface carries X-Request-ID, the 429
\* of the rate limiter and the 400 and 500 of the routes included.
C22_RequestIdOnEveryResponse == requests > 0 => response.requestId

\* C23: the bucket starts full; k tokens taken from the full bucket at one instant,
\* getAvailableTokens() returns maxTokens - k + floor(elapsed * refillRate), at most
\* maxTokens, elapsed being the time since then; the token count stays within
\* [0, maxTokens]; a tryConsume(n) that returns false takes nothing.
C23_TokenBucket ==
  /\ [](/\ limiter.tokens >= 0 /\ limiter.tokens <= limiter.maxTokens * MsPerSecond
        /\ limiterOps = 0 /\ requests = 0 /\ limiterTicks = 0 =>
             limiter.tokens = limiter.maxTokens * MsPerSecond
        /\ returned.op = "getAvailableTokens" /\ spent.valid =>
             returned.value =
               Min(limiter.maxTokens,
                   limiter.maxTokens - spent.k
                     + ((returned.at - spent.at) * limiter.refillRate) \div 1000))
  /\ [][limiterOps' # limiterOps /\ returned'.op = "tryConsume" /\ ~returned'.ok =>
          limiter'.tokens = refill(limiter, limiterNow).tokens]_vars

C23_Witness ==
  /\ returned.op = "getAvailableTokens" /\ spent.valid /\ spent.k = 2
  /\ limiter.maxTokens = 2 /\ limiter.refillRate = 1
  /\ returned.at - spent.at = 1499
  /\ returned.value = 1
  /\ limiter.tokens = 1499

Last(list, n) == SubSeq(list, Len(list) - n + 1, Len(list))

C25_ListenersIsolated ==
  LET starts == {i \in DOMAIN delivery : delivery[i].at = "start"}
      called == {delivery[i].sub : i \in starts}
  IN  /\ ecall.result # "rejected"
      /\ called \subseteq atStart \cup added
      /\ \A i \in starts : i > 1 => delivery[i - 1].at # "start"
      /\ \A i \in starts : i < Len(delivery) =>
           delivery[i + 1].at # "start" /\ delivery[i + 1].sub = delivery[i].sub
      /\ ecall.pc = "done" =>
           /\ ecall.result = "resolved"
           /\ atStart \ removed \subseteq called
           /\ delivery # <<>> => delivery[Len(delivery)].at # "start"

C25_Witness ==
  /\ ecall.pc = "done" /\ ecall.result = "resolved"
  /\ Len(delivery) = 4
  /\ delivery[2].at = "throw" /\ delivery[4].at = "reject"
  /\ delivery[1].sub[1] = ecall.event.type /\ delivery[3].sub[1] = GlobalScope
  /\ \E l \in Listeners : <<ecall.event.type, l>> \in handles \ (atStart \cup added)

Settled == \A c \in Calls : vpc[c] \in {"idle", "done"}

\* C26: the nonce cache is bounded: once no verify() call is pending its size is at most
\* the soft cap, entries beyond it being evicted oldest first even when not expired.
C26_CacheBounded == Settled => Cardinality(DOMAIN nonceCache) <= SoftCap

\* C27: a nonce recorded by a successful verification expires at now + TTL, TTL being the
\* verifier's configured nonceCacheTtlMs or 5 minutes by default; the sweep removes every
\* entry whose expiry is <= now and no other.
C27_ConfiguredTtl ==
  [][LET ttl == IF nonceCacheTtlMs = <<>> THEN 300000 ELSE nonceCacheTtlMs[1]
         written == {k \in DOMAIN nonceCache' :
                       k \notin DOMAIN nonceCache \/ nonceCache'[k] # nonceCache[k]}
     IN  /\ \A k \in written : nonceCache'[k] = now + ttl
         /\ DOMAIN nonceCache' # DOMAIN nonceCache /\ DOMAIN nonceCache' \subseteq DOMAIN nonceCache =>
              \A k \in DOMAIN nonceCache : k \in DOMAIN nonceCache' <=> nonceCache[k] > now]_vars

\* C30: once no verify() call is pending, totalVerifications = successfulVerifications +
\* failedVerifications: every call is counted as one success or one failure.
C30_MetricsAddUp ==
  Settled => metrics.totalVerifications = metrics.successfulVerifications + metrics.failedVerifications

\* C28: generateNonce never returns a nonce that is in the used-nonce set: it draws again
\* on a collision and after 100 colliding draws it aborts, returning nothing; the set
\* gains the nonce and is cut back to its 5,000 latest entries when it grows beyond 10,000.
C28_NeverReusesNonce ==
  [][signs' # signs =>
       \/ generated' = <<>> /\ usedNonces' = usedNonces
       \/ /\ generated' # <<>>
          /\ ~Has(usedNonces, generated'[1].nonce)
          /\ generated'[1].attempts <= 100
          /\ Has(usedNonces', generated'[1].nonce)
          /\ IF Size(usedNonces) + 1 > 10000
               THEN Size(usedNonces') = 5000
               ELSE Size(usedNonces') = Size(usedNonces) + 1
                      /\ \A i \in DOMAIN usedNonces :
                           Has(usedNonces', usedNonces[i].lo) /\ Has(usedNonces', usedNonces[i].hi)]_vars

Streaming == trace # <<>> /\ trace[1] = "requestStream"

\* C29: requestStream performs the payment handshake of request: a 402 with an empty
\* accepts list rejects the call; the paid request is sent only after the decision
\* callback, when set, was consulted and with the selected option within
\* options.maxAmount; a paid
\* response was preceded by payment:initiated and payment:signed and reports the amount
\* of the selected option as amountPaid.
C29_StreamHandshake ==
  Streaming =>
    /\ cpc = "done" /\ answered = PaymentRequired /\ offered = <<>> => cres.kind = "rejected"
    /\ cpc = "stream-paid" =>
         /\ paymentDecision => Includes(trace, "decision")
         /\ Truthy(cin.maxAmount) => requirements[1].maxAmountRequired <= cin.maxAmount.amount
    /\ cres.kind = "resolved" /\ cres.paid =>
         /\ Includes(trace, "initiated")
         /\ Includes(trace, "signed")
         /\ cres.amountPaid = Some(requirements[1].maxAmountRequired)

\* C31: the balance check is soft: when the balanceOf read throws, verify() returns
\* isValid=true and the nonce is recorded; when the read yields a balance below
\* authorization.value, verify() returns isValid=false and the cache is left as it was.
C31_SoftBalanceCheck ==
  /\ [][\A c \in Calls : vread'[c] # vread[c] /\ vread'[c] # <<>> =>
          LET read == vread'[c][1]
              key == NonceKey(vin[c].R.network, vin[c].h.auth.nonce)
          IN  IF read.threw
                THEN vres'[c].isValid /\ key \in DOMAIN nonceCache'
                       /\ nonceCache'[key] = now + 300000
              ELSE IF read.balance < vin[c].h.auth.value
                THEN ~vres'[c].isValid /\ vpc'[c] = "done" /\ nonceCache' = nonceCache
              ELSE TRUE]_vars
  /\ [](\A c \in Calls : vpc[c] = "done" /\ vread[c] # <<>> =>
          (vres[c].isValid <=> vread[c][1].threw \/ vread[c][1].balance >= vin[c].h.auth.value))

C31_Witness ==
  /\ vpc[1] = "done" /\ vread[1] # <<>> /\ vread[1][1].threw
  /\ vres[1].isValid
  /\ NonceKey(vin[1].R.network, vin[1].h.auth.nonce) \in DOMAIN nonceCache

\* the checks of verify() in the order of the documentation: whether the call fails the
\* check, and the reasons the check reports
ChecksInOrder(c) ==
  LET h == vin[c].h
      R == vin[c].R
      nowSec == vat[c] \div 1000
  IN  << [fails |-> h.x402Version # 1, reasons |-> {"Unsupported x402 version"}],
         [fails |-> h.scheme # R.scheme, reasons |-> {"Scheme mismatch"}],
         [fails |-> h.network # R.network, reasons |-> {"Network mismatch"}],
         [fails |-> h.scheme \notin {"exact", "upto"}, reasons |-> {"Unsupported scheme"}],
         [fails |-> vhit[c], reasons |-> {ReplayReason}],
         [fails |-> ToLowerCase(h.auth.to) # ToLowerCase(R.payTo),
          reasons |-> {"Recipient mismatch"}],
         [fails |-> h.auth.value < R.maxAmountRequired, reasons |-> {"Insufficient amount"}],
         [fails |-> nowSec < h.auth.validAfter \/ nowSec > h.auth.validBefore,
          reasons |-> {WindowReason}],
         [fails |-> h.sig # "good" \/ R.network \notin KnownNetworks,
          reasons |-> {"Invalid EIP-712 signature", "Signature verification failed"}],
         [fails |-> vread[c] # <<>> /\ ~vread[c][1].threw /\ vread[c][1].balance < h.auth.value,
          reasons |-> {"Insufficient balance"}] >>

FailedChecks(c) == {i \in DOMAIN ChecksInOrder(c) : ChecksInOrder(c)[i].fails}

\* C32: verify() of a decodable payload reports the first failing check in the order
\* version, scheme, network, nonce lookup, recipient, amount, time window, signature,
\* balance, and succeeds when none fails; a replayed nonce is reported as a replay
\* whatever later checks would say and adds exactly one to replayAttemptsBlocked; the
\* balance is read only when every check before it passed.
C32_ChecksInOrder ==
  /\ [](\A c \in Calls : vin[c].h.kind = "object" =>
          /\ vpc[c] = "done" =>
               IF FailedChecks(c) = {} THEN vres[c].isValid /\ vread[c] # <<>>
               ELSE /\ ~vres[c].isValid
                    /\ \E i \in FailedChecks(c) :
                         /\ \A j \in FailedChecks(c) : i <= j
                         /\ vres[c].invalidReason \in ChecksInOrder(c)[i].reasons
          /\ vread[c] # <<>> => FailedChecks(c) \subseteq {10})
  /\ [][metrics'.replayAttemptsBlocked =
          metrics.replayAttemptsBlocked
            + Cardinality({c \in Calls : vpc[c] = "idle" /\ vpc'[c] # "idle"
                                           /\ PassesMatch(c)' /\ vhit'[c]})]_vars

C32_Witness ==
  /\ vpc[1] = "done" /\ vin[1].h.kind = "object"
  /\ vhit[1] /\ vin[1].h.auth.value < vin[1].R.maxAmountRequired
  /\ vres[1].invalidReason = ReplayReason
  /\ metrics.replayAttemptsBlocked = 1

\* C33: a verify() call that returns isValid=false leaves the nonce cache as it was: an
\* entry is written only by a call that goes on to return isValid=true, and the step in
\* which a call fails changes nothing in the cache.
C33_FailureRecordsNothing ==
  [][/\ \A k \in DOMAIN nonceCache' :
          k \notin DOMAIN nonceCache \/ nonceCache'[k] # nonceCache[k] =>
            \E c \in Calls : /\ vpc[c] = "bal" /\ vpc'[c] = "emit"
                             /\ k = NonceKey(vin[c].R.network, vin[c].h.auth.nonce)
                             /\ vres'[c].isValid
     /\ \A c \in Calls :
          /\ vpc[c] = "emit" /\ vpc'[c] # "emit" => vpc'[c] = "done" /\ vres'[c].isValid
          /\ vpc[c] # "done" /\ vpc'[c] = "done" /\ ~vres'[c].isValid =>
               vpc[c] # "emit" /\ nonceCache' = nonceCache]_vars

C33_Witness ==
  /\ vpc[1] = "done" /\ ~vres[1].isValid
  /\ vres[1].invalidReason = "Invalid EIP-712 signature"
  /\ NonceKey(vin[1].R.network, vin[1].h.auth.nonce) \notin DOMAIN nonceCache
  /\ metrics.successfulVerifications = 0

\* C34: a settle() call that ends in failure after a transient RPC error, whether at the
\* simulation, the submission or the receipt wait, has used up its attempt budget.
C34_TransientRetried ==
  spc = "done" /\ ~sres.success
    /\ (simFailed = TransientMsg \/ (svia = "catch" /\ lastThrown = TransientMsg))
    => attempt = MaxAttempts(sin.options)

\* C38: one settle() call submits at most one transaction: once writeContract has returned
\* a hash, no later attempt of the call submits the authorization again.
C38_OneSubmission == Len(txs) <= 1

\* the positions of the log where fn was invoked
Invocations == {i \in DOMAIN rlog : rlog[i].at = "fn"}

\* C35: withRetry invokes fn at most maxAttempts times (3 when omitted); nothing follows
\* a success or an error that isRetryable refuses; every invocation after the first comes
\* right after an onRetry call and a sleep of at most maxDelayMs (30000 when omitted) for
\* the error of the attempt before; when the attempts are used up the call rejects with
\* the error of the last attempt.
C35_RetryLoop ==
  LET max == IF ropt.maxAttempts = <<>> THEN 3 ELSE ropt.maxAttempts[1]
      cap == IF ropt.maxDelayMs = <<>> THEN 30000 ELSE ropt.maxDelayMs[1]
      refused(e) == ropt.isRetryable = "notE2" /\ e = "e2"
  IN  /\ Cardinality(Invocations) <= max
      /\ \A i \in DOMAIN rlog :
           rlog[i].at = "ok" \/ (rlog[i].at = "error" /\ refused(rlog[i].error)) =>
             i = Len(rlog) /\ rpc = "done"
      /\ \A i \in Invocations : i > 1 =>
           /\ i > 3
           /\ rlog[i - 3].at = "error"
           /\ rlog[i - 2].at = "onRetry" /\ rlog[i - 2].error = rlog[i - 3].error
           /\ rlog[i - 2].attempt = rlog[i].attempt - 1
           /\ rlog[i - 1].at = "sleep" /\ rlog[i - 1].delay <= cap
           /\ rlog[i - 2].delay = rlog[i - 1].delay
      /\ rpc = "done" =>
           /\ rlog[Len(rlog)].at = "ok" => rres.kind = "resolved"
           /\ rlog[Len(rlog)].at = "error" =>
                rres.kind = "rejected" /\ rres.error = rlog[Len(rlog)].error
           /\ rlog[Len(rlog)].at \in {"ok", "error"}
      /\ rpc = "fn" /\ Cardinality(Invocations) = max =>
           rlog[Len(rlog)].at = "fn"

C35_Witness ==
  /\ rpc = "done" /\ ropt.maxAttempts = <<>> /\ ropt.maxDelayMs = <<>>
  /\ ropt.baseDelayMs = <<20000>>
  /\ Cardinality(Invocations) = 3
  /\ rres = [kind |-> "rejected", error |-> "e1"]
  /\ rlog[6].at = "error" /\ rlog[6].error = "e2"
  /\ rlog[8].at = "sleep" /\ rlog[8].delay = 30000

\* C36: one request() signs at most one payment authorization and sends at most one
\* request carrying X-PAYMENT, whatever becomes of the paid request.
C36_OnePaymentPerRequest == signatures <= 1 /\ paidRequests <= 1

\* C40: a request() that rejects with a policy refusal (the decision callback declined,
\* or the price exceeds maxAmount) in its first attempt, so with no failure of the
\* service, leaves the breaker of its host as it was; and no step changes the breaker
\* of a host other than the one the request in flight goes to.
C40_BreakerReflectsService ==
  [][/\ cpc # "done" /\ cpc' = "done" /\ cattempt = 1 /\ cres'.kind = "rejected"
          /\ cres'.error.message \in {DeclinedMsg, ExceedsMaxMsg}
        => circuitBreakers'[cin.host] = circuitBreakers[cin.host]
     /\ \A h \in DOMAIN circuitBreakers :
          h # cin'.host => circuitBreakers'[h] = circuitBreakers[h]]_vars

\* C37: a settle() that reports success, on which the gateway in settle-then-serve mode
\* calls the route handler, is for a payment that satisfies the requirement it was given:
\* same scheme and network, paid to payTo, and at least maxAmountRequired.
C37_SettledSatisfiesRequirement ==
  spc = "done" /\ sres.success =>
    /\ sin.h.scheme = sin.R.scheme
    /\ sin.h.network = sin.R.network
    /\ ToLowerCase(sin.h.auth.to) = ToLowerCase(sin.R.payTo)
    /\ isAmountSufficient(sin.h.auth.value, sin.R.maxAmountRequired)

\* C39: the requirement the gateway hands to the facilitator with a payment names the
\* network of the option a client selects from the route's accepts list (the cheapest,
\* an L2 first among equals), which is the network the client's payload is signed for.
C39_SelectedOptionAccepted ==
  gsent # None =>
    gsent[1].network = selectBestPaymentOption(AllRequirements(gin.config.requirements)).network
====
